---- MODULE Spec2Model ----
(***************************************************************************)
(* Battle engine core (engine/src/battle_engine/core.py): the byte-coded   *)
(* VM, the kernel's tick loop with scoring and kill attribution, the       *)
(* replay records and the winner resolution.                               *)
(*                                                                         *)
(* The kernel is one record K (its fields are the fields of Kernel, VM     *)
(* and the locals of Kernel.run that live across loop iterations); every   *)
(* method is a pure operator on that record, and every action applies one  *)
(* operator to the current state.                                          *)
(***************************************************************************)
EXTENDS Integers, Sequences, FiniteSets, TLC

\* ----- bounds of the model -----
ArenaSize == 12
MaxQuota == 2
MaxTicks == 3
MaxPolls == 2

\* ----- ISA (core.py:9-10) -----
NOP == 0
MOV == 1
ADD == 2
LOAD == 3
STORE == 4
JMP == 5
JZ == 6
HALT == 7
MOVP == 8
ADDP == 9
LOADI == 10
STOREI == 11

\* Python's None (an unowned cell, a missing owner).
None == "None"

\* max(a, b)
Max(a, b) == IF a > b THEN a ELSE b

\* ----- 32-bit unsigned values -----
\* A value v in [0, 2^32) is the tuple of its four bytes, least significant
\* first: v = w[1] + 2^8 w[2] + 2^16 w[3] + 2^24 w[4].
W32(b0, b1, b2, b3) == <<b0, b1, b2, b3>>
WZero == W32(0, 0, 0, 0)
WByte(b) == W32(b, 0, 0, 0)

\* Mutant: each byte is added on its own, no carry into the next.
WAdd_nocarry(x, y) ==
    W32((x[1] + y[1]) % 256, (x[2] + y[2]) % 256,
        (x[3] + y[3]) % 256, (x[4] + y[4]) % 256)

\* (x + y) & 0xFFFFFFFF: byte-wise addition, the carry out of byte 4 dropped.
WAdd(x, y) ==
    LET s1 == x[1] + y[1]
        s2 == x[2] + y[2] + (s1 \div 256)
        s3 == x[3] + y[3] + (s2 \div 256)
        s4 == x[4] + y[4] + (s3 \div 256)
    IN  W32(s1 % 256, s2 % 256, s3 % 256, s4 % 256)

\* v % m, by Horner's rule from the most significant byte.
WMod(w, m) ==
    LET r4 == w[4] % m
        r3 == (r4 * 256 + w[3]) % m
        r2 == (r3 * 256 + w[2]) % m
    IN  (r2 * 256 + w[1]) % m

\* v & 0xFF
WLow8(w) == w[1]

\* Mutant: the flag is set when the value is not zero.
ZFlag_inverted(w) == IF w = WZero THEN 0 ELSE 1

\* 1 if v == 0 else 0
ZFlag(w) == IF w = WZero THEN 1 ELSE 0

\* ----- VM -----
\* Mutant: the arena starts filled with HALT.
VMInit_halts(arena_size) ==
    [arena |-> [i \in 0..(arena_size - 1) |-> HALT],
     writer |-> [i \in 0..(arena_size - 1) |-> None],
     tick_diffs |-> <<>>]

\* VM.__init__
VMInit(arena_size) ==
    [arena |-> [i \in 0..(arena_size - 1) |-> NOP],
     writer |-> [i \in 0..(arena_size - 1) |-> None],
     tick_diffs |-> <<>>]

ArenaLen(vm) == Cardinality(DOMAIN vm.arena)

\* Mutant: the diff list is kept from tick to tick.
clear_tick_diffs_keep(vm) == vm

\* VM.clear_tick_diffs
clear_tick_diffs(vm) == [vm EXCEPT !.tick_diffs = <<>>]

\* VM._rd32, lines 85-92: the four cells read, least significant byte first.
rd32_cells(vm, pos) ==
    LET m == ArenaLen(vm)
        p == pos % m
    IN  <<p, (p + 1) % m, (p + 2) % m, (p + 3) % m>>

\* VM._rd32: the four bytes at pos, pos+1, pos+2, pos+3, each index wrapped.
rd32(vm, pos) ==
    LET c == rd32_cells(vm, pos)
    IN  W32(vm.arena[c[1]], vm.arena[c[2]], vm.arena[c[3]], vm.arena[c[4]])

\* Mutant: _wr8 stores the byte and leaves the writer tag alone.
wr8_untagged(vm, pos, val, owner) ==
    LET m == ArenaLen(vm)
        i == pos % m
    IN  [arena |-> [vm.arena EXCEPT ![i] = WLow8(val)],
         writer |-> vm.writer,
         tick_diffs |-> Append(vm.tick_diffs, <<i, 1, owner>>)]

\* Mutant: _wr8 stores the byte and marks the cell unowned.
wr8_unowned(vm, pos, val, owner) ==
    LET m == ArenaLen(vm)
        i == pos % m
    IN  [arena |-> [vm.arena EXCEPT ![i] = WLow8(val)],
         writer |-> [vm.writer EXCEPT ![i] = None],
         tick_diffs |-> Append(vm.tick_diffs, <<i, 1, owner>>)]

\* Mutant: _wr8 extends the last run whoever owns it.
wr8_any_owner(vm, pos, val, owner) ==
    LET m == ArenaLen(vm)
        i == pos % m
        d == vm.tick_diffs
        n == Len(d)
        extend == /\ n > 0
                  /\ d[n][1] + d[n][2] = i
    IN  [arena |-> [vm.arena EXCEPT ![i] = WLow8(val)],
         writer |-> [vm.writer EXCEPT ![i] = owner],
         tick_diffs |-> IF extend
                        THEN [d EXCEPT ![n] = <<d[n][1], d[n][2] + 1, d[n][3]>>]
                        ELSE Append(d, <<i, 1, owner>>)]

\* Mutant: _wr8 extends a run that ends at the last cell with a write to cell 0.
wr8_wrapping(vm, pos, val, owner) ==
    LET m == ArenaLen(vm)
        i == pos % m
        d == vm.tick_diffs
        n == Len(d)
        extend == /\ n > 0
                  /\ (d[n][1] + d[n][2]) % m = i
                  /\ d[n][3] = owner
    IN  [arena |-> [vm.arena EXCEPT ![i] = WLow8(val)],
         writer |-> [vm.writer EXCEPT ![i] = owner],
         tick_diffs |-> IF extend
                        THEN [d EXCEPT ![n] = <<d[n][1], d[n][2] + 1, d[n][3]>>]
                        ELSE Append(d, <<i, 1, owner>>)]

\* VM._wr8 (val is a 32-bit register value)
wr8(vm, pos, val, owner) ==
    LET m == ArenaLen(vm)
        i == pos % m
        d == vm.tick_diffs
        n == Len(d)
        extend == /\ n > 0
                  /\ d[n][1] + d[n][2] = i
                  /\ d[n][3] = owner
    IN  [arena |-> [vm.arena EXCEPT ![i] = WLow8(val)],
         writer |-> [vm.writer EXCEPT ![i] = owner],
         tick_diffs |-> IF extend
                        THEN [d EXCEPT ![n] = <<d[n][1], d[n][2] + 1, d[n][3]>>]
                        ELSE Append(d, <<i, 1, owner>>)]

\* Mutant: load_code stores through _wr8, which records diff runs.
RECURSIVE load_bytes_recorded(_, _, _, _, _)
load_bytes_recorded(vm, s, code, owner, i) ==
    IF i > Len(code) THEN vm
    ELSE load_bytes_recorded(wr8(vm, s + (i - 1), WByte(code[i]), owner),
                             s, code, owner, i + 1)

\* Mutant: load_code leaves alone the cells an earlier load has tagged.
RECURSIVE load_bytes_first_wins(_, _, _, _, _)
load_bytes_first_wins(vm, s, code, owner, i) ==
    IF i > Len(code) THEN vm
    ELSE LET m == ArenaLen(vm)
             c == (s + (i - 1)) % m
         IN  load_bytes_first_wins(
                 IF vm.writer[c] = None
                 THEN [vm EXCEPT !.arena[c] = code[i], !.writer[c] = owner]
                 ELSE vm,
                 s, code, owner, i + 1)

\* VM.load_code: the loop over enumerate(code), bytes written in order.
RECURSIVE load_bytes(_, _, _, _, _)
load_bytes(vm, s, code, owner, i) ==
    IF i > Len(code) THEN vm
    ELSE LET m == ArenaLen(vm)
             c == (s + (i - 1)) % m
         IN  load_bytes([vm EXCEPT !.arena[c] = code[i], !.writer[c] = owner],
                        s, code, owner, i + 1)

\* VM.load_code: the VM after the load and the region (s, e).
load_code(vm, start, code, owner) ==
    LET m == ArenaLen(vm)
        s == start % m
        e == (s + Max(1, Len(code)) - 1) % m
    IN  [vm |-> load_bytes(vm, s, code, owner, 1), region |-> <<s, e>>]

\* Agent(agent_id, pc, region) with the dataclass defaults.
NewAgent(agent_id, pc, region) ==
    [agent_id |-> agent_id, pc |-> pc, alive |-> TRUE,
     regs |-> [A |-> WZero, Z |-> 0, P |-> WZero],
     cpu_used |-> 0, mem_writes |-> 0, region |-> region]

\* Mutant: the opcode is fetched from the cell after the one under pc.
fetch_cell_next(vm, agent) == (agent.pc + 1) % ArenaLen(vm)

\* VM.step, line 124: the cell the opcode is fetched from.
fetch_cell(vm, agent) == agent.pc % ArenaLen(vm)

\* VM.step, lines 140 and 145: the cell LOAD reads and STORE writes.
data_addr(vm, ip) == WMod(rd32(vm, ip + 1), ArenaLen(vm))

\* Mutant: a jump takes the low byte of its operand as the new pc.
jump_addr_raw(vm, ip) == rd32(vm, ip + 1)[1]

\* VM.step, lines 150 and 152: the pc JMP and a taken JZ set.
jump_addr(vm, ip) == WMod(rd32(vm, ip + 1), ArenaLen(vm))

\* VM.step, lines 161 and 166: the cell LOADI reads and STOREI writes.
ptr_addr(vm, agent) == WMod(agent.regs.P, ArenaLen(vm))

\* Mutant: VM.step does not look at the alive flag.
step_returns_at_once_never(agent) == FALSE

\* VM.step, lines 121-122: a dead agent makes step return at once.
step_returns_at_once(agent) == ~agent.alive

\* The opcodes VM.step decodes a four-byte operand for.
WithOperand == {MOV, ADD, LOAD, STORE, JMP, JZ, MOVP, ADDP}

\* VM.step: the arena and writer cells one step of the agent reads or writes.
step_cells(vm, agent) ==
    LET ip == fetch_cell(vm, agent)
        op == vm.arena[ip]
        c == rd32_cells(vm, ip + 1)
    IN  IF step_returns_at_once(agent) THEN {}
        ELSE {ip}
             \cup (IF op \in WithOperand THEN {c[1], c[2], c[3], c[4]} ELSE {})
             \cup (IF op \in {LOAD, STORE} THEN {data_addr(vm, ip)} ELSE {})
             \cup (IF op \in {LOADI, STOREI} THEN {ptr_addr(vm, agent)} ELSE {})

\* VM.step: the VM and the agent after one instruction.
vm_step(vm, agent) ==
    LET m == ArenaLen(vm)
        ip == fetch_cell(vm, agent)
        op == vm.arena[ip]
        imm == rd32(vm, ip + 1)
        r == agent.regs
        same == [vm |-> vm, agent |-> agent]
    IN  IF step_returns_at_once(agent) THEN same
        ELSE IF op = NOP THEN
            [vm |-> vm, agent |-> [agent EXCEPT !.pc = (ip + 1) % m]]
        ELSE IF op = HALT THEN
            [vm |-> vm, agent |-> [agent EXCEPT !.alive = FALSE]]
        ELSE IF op = MOV THEN
            [vm |-> vm,
             agent |-> [agent EXCEPT !.regs.A = imm, !.pc = (ip + 5) % m]]
        ELSE IF op = ADD THEN
            LET a2 == WAdd(r.A, imm)
            IN  [vm |-> vm,
                 agent |-> [agent EXCEPT !.regs.A = a2, !.regs.Z = ZFlag(a2),
                                         !.pc = (ip + 5) % m]]
        ELSE IF op = LOAD THEN
            LET addr == data_addr(vm, ip)
                a2 == WByte(vm.arena[addr])
            IN  [vm |-> vm,
                 agent |-> [agent EXCEPT !.regs.A = a2, !.regs.Z = ZFlag(a2),
                                         !.pc = (ip + 5) % m]]
        ELSE IF op = STORE THEN
            LET addr == data_addr(vm, ip)
            IN  [vm |-> wr8(vm, addr, r.A, agent.agent_id),
                 agent |-> [agent EXCEPT !.mem_writes = @ + 1,
                                         !.pc = (ip + 5) % m]]
        ELSE IF op = JMP THEN
            [vm |-> vm, agent |-> [agent EXCEPT !.pc = jump_addr(vm, ip)]]
        ELSE IF op = JZ THEN
            LET addr == jump_addr(vm, ip)
            IN  [vm |-> vm,
                 agent |-> [agent EXCEPT
                              !.pc = IF r.Z = 1 THEN addr ELSE (ip + 5) % m]]
        ELSE IF op = MOVP THEN
            [vm |-> vm,
             agent |-> [agent EXCEPT !.regs.P = imm, !.pc = (ip + 5) % m]]
        ELSE IF op = ADDP THEN
            [vm |-> vm,
             agent |-> [agent EXCEPT !.regs.P = WAdd(r.P, imm),
                                     !.pc = (ip + 5) % m]]
        ELSE IF op = LOADI THEN
            LET addr == ptr_addr(vm, agent)
                a2 == WByte(vm.arena[addr])
            IN  [vm |-> vm,
                 agent |-> [agent EXCEPT !.regs.A = a2, !.regs.Z = ZFlag(a2),
                                         !.pc = (ip + 1) % m]]
        ELSE IF op = STOREI THEN
            LET addr == ptr_addr(vm, agent)
            IN  [vm |-> wr8(vm, addr, r.A, agent.agent_id),
                 agent |-> [agent EXCEPT !.mem_writes = @ + 1,
                                         !.pc = (ip + 1) % m]]
        ELSE
            [vm |-> vm, agent |-> [agent EXCEPT !.alive = FALSE]]

\* ----- Python dicts keyed by agent id -----
\* d[k] = v
DictSet(d, key, v) ==
    [x \in (DOMAIN d) \cup {key} |-> IF x = key THEN v ELSE d[x]]

\* d.get(k, default)
DictGet(d, key, default) == IF key \in DOMAIN d THEN d[key] ELSE default

\* d.setdefault(k, default)
DictSetDefault(d, key, default) ==
    IF key \in DOMAIN d THEN d ELSE DictSet(d, key, default)

EmptyDict == [x \in {} |-> 0]

\* Counter(vm.writer).get(agent_id, 0)
OwnedCells(vm, agent_id) ==
    Cardinality({i \in DOMAIN vm.writer : vm.writer[i] = agent_id})

\* ----- Config -----
\* Weights(alive, kill, territory, territory_bucket)
Weights(alive, kill, territory, territory_bucket) ==
    [alive |-> alive, kill |-> kill, territory |-> territory,
     territory_bucket |-> territory_bucket]

\* Config(arena_size, instr_per_tick, seed, win_mode, weights)
Config(arena_size, instr_per_tick, seed, win_mode, weights) ==
    [arena_size |-> arena_size, instr_per_tick |-> instr_per_tick,
     seed |-> seed, win_mode |-> win_mode, weights |-> weights]

\* int(x) and str(x) of Config.from_dict, for the values the model feeds:
\* an int is returned as it is, a str is returned as it is.
py_int(x) == x
py_str(x) == x

\* Config.from_dict(d): absent keys take the defaults, keys that are not
\* fields are not read.
from_dict(d) ==
    LET w == DictGet(d, "weights", EmptyDict)
    IN  Config(py_int(DictGet(d, "arena_size", 4096)),
               py_int(DictGet(d, "instr_per_tick", 8)),
               py_int(DictGet(d, "seed", 1337)),
               py_str(DictGet(d, "win_mode", "score_fallback")),
               Weights(py_int(DictGet(w, "alive", 1)),
                       py_int(DictGet(w, "kill", 5)),
                       py_int(DictGet(w, "territory", 1)),
                       py_int(DictGet(w, "territory_bucket", 64))))

\* ----- Kernel -----
\* The stats entry spawn creates.
NewStats ==
    [alive_ticks |-> 0, total_cpu |-> 0, total_mem_writes |-> 0, kills |-> 0,
     deaths |-> 0, territory_max |-> 0, territory_sum |-> 0,
     territory_last |-> 0]

\* ----- PygameRenderer (client/src/renderers.py), the renderer a host may
\* hand to Kernel: what its callbacks do to the renderer. clock counts the
\* calls of Clock.tick, each of which waits for the frame time. -----
\* Kernel's field renderer is Optional: the empty sequence for None, the
\* one-element sequence of the renderer otherwise.
NoRenderer == <<>>

\* PygameRenderer(): no screen and no clock yet.
PygameRenderer == [screen |-> FALSE, clock |-> 0]

\* on_init(kernel): pygame is set up; the kernel it is given is only read.
\* self.screen is assigned at line 22, before the caption, the font and the
\* clock (lines 23-25), so it is also what on_init leaves when one of those
\* raises.
on_init(r) == [r EXCEPT !.screen = TRUE]

\* on_tick(tick, snapshot) when no QUIT is among the polled events: the
\* frame is drawn and Clock.tick(60) waits. (On QUIT it raises SystemExit
\* before anything else.)
on_tick(r) == [r EXCEPT !.clock = @ + 1]

\* on_close(): pygame.quit().
on_close(r) == r

\* on_game_over(summary): the page is drawn (pygame set up if it was not) and
\* one turn of the waiting loop taken: the events polled, Clock.tick(30).
on_game_over(r) == [r EXCEPT !.screen = TRUE, !.clock = @ + 1]

\* Kernel.__init__. sink is the list of records handed to the sink so far;
\* rng is random.Random(cfg.seed): its seed and the number of draws made.
\* pc is the position of Kernel.run: "init" before the call.
KernelInit(c) ==
    [cfg |-> c,
     vm |-> VMInit(c.arena_size),
     instr_per_tick |-> c.instr_per_tick,
     agents |-> <<>>,
     tick |-> 0,
     sink |-> <<>>,
     sink_open |-> TRUE,
     score |-> EmptyDict,
     alive_prev |-> EmptyDict,
     stats |-> EmptyDict,
     rng |-> [seed |-> c.seed, draws |-> 0],
     pc |-> "init",
     max_ticks |-> 0,
     events |-> <<>>,
     ai |-> 0,
     k |-> 0,
     winner |-> "",
     summary |-> <<>>,
     renderer |-> NoRenderer]

\* Kernel.spawn
spawn(K, agent_id, entry, code) ==
    LET ld == load_code(K.vm, entry, code, agent_id)
        a == NewAgent(agent_id, ld.region[1], ld.region)
    IN  [K EXCEPT !.vm = ld.vm,
                  !.agents = Append(K.agents, a),
                  !.score = DictSetDefault(K.score, agent_id, 0),
                  !.alive_prev = DictSet(K.alive_prev, agent_id, a.alive),
                  !.stats = DictSet(K.stats, agent_id, NewStats)]

\* Kernel._snapshot: the tick record.
snapshot(K, events) ==
    [tick |-> K.tick,
     agents |-> [i \in 1..Len(K.agents) |->
                   [id |-> K.agents[i].agent_id,
                    pc |-> K.agents[i].pc,
                    alive |-> K.agents[i].alive,
                    cpu_used |-> K.agents[i].cpu_used,
                    mem_writes |-> K.agents[i].mem_writes,
                    region |-> K.agents[i].region]],
     score |-> K.score,
     events |-> events,
     memory_diffs |-> [j \in 1..Len(K.vm.tick_diffs) |->
                         [addr |-> K.vm.tick_diffs[j][1],
                          len |-> K.vm.tick_diffs[j][2],
                          owner |-> K.vm.tick_diffs[j][3]]]]

\* Kernel.run, lines 254-257: the header record is emitted first; with a
\* renderer, run then calls its on_init.
run_begin(K, max_ticks) ==
    [K EXCEPT !.sink = Append(K.sink, [tick |-> 0, ver |-> 6, config |-> K.cfg]),
              !.max_ticks = max_ticks,
              !.pc = IF K.renderer = NoRenderer THEN "loop" ELSE "on_init"]

\* Kernel.run, line 257: renderer.on_init(self) returns, or raises, which
\* nothing in run catches: before self.screen is assigned (pygame.init or
\* set_mode failed) or after it (the caption, the font or the clock failed).
run_on_init(K, out) ==
    IF out = "raises_before_screen" THEN [K EXCEPT !.pc = "raised"]
    ELSE [K EXCEPT !.renderer = <<on_init(@[1])>>,
                   !.pc = IF out = "returns" THEN "loop" ELSE "raised"]

\* Mutant: the seed decides which agent the tick starts with.
tick_begin_seeded(K) ==
    [K EXCEPT !.tick = K.tick + 1,
              !.vm = clear_tick_diffs(K.vm),
              !.events = <<>>,
              !.ai = IF K.rng.seed % 2 = 0 THEN 2 ELSE 1,
              !.pc = "agent"]

\* Mutant: the agent loop starts at the second agent when there is one.
tick_begin_second(K) ==
    [K EXCEPT !.tick = K.tick + 1,
              !.vm = clear_tick_diffs(K.vm),
              !.events = <<>>,
              !.ai = IF Len(K.agents) >= 2 THEN 2 ELSE 1,
              !.pc = "agent"]

\* Kernel.run, lines 259-262: the head of the for loop and the start of tick t.
tick_begin(K) ==
    [K EXCEPT !.tick = K.tick + 1,
              !.vm = clear_tick_diffs(K.vm),
              !.events = <<>>,
              !.ai = 1,
              !.pc = "agent"]

\* Kernel.run, line 259: range(1, max_ticks + 1) is exhausted.
loop_exit(K) == [K EXCEPT !.pc = "resolve"]

\* Kernel.run, lines 265-267: a dead agent is skipped.
agent_skip(K) == [K EXCEPT !.ai = K.ai + 1]

\* Mutant: entering the quota loop restarts the agent at its region start.
agent_enter_restarting(K) ==
    [K EXCEPT !.agents[K.ai].cpu_used = 0,
              !.agents[K.ai].pc = K.agents[K.ai].region[1],
              !.k = 0, !.pc = "quota"]

\* Kernel.run, lines 268-269: cpu_used is reset and the quota loop entered.
agent_enter(K) ==
    [K EXCEPT !.agents[K.ai].cpu_used = 0, !.k = 0, !.pc = "quota"]

\* Kernel.run, lines 272-273: one VM.step of the current agent.
agent_step(K) ==
    LET st == vm_step(K.vm, K.agents[K.ai])
    IN  [K EXCEPT !.vm = st.vm,
                  !.agents[K.ai] = [st.agent EXCEPT !.cpu_used = @ + 1],
                  !.k = K.k + 1]

\* Kernel.run, lines 269-271: the quota is used up or the agent died.
agent_leave(K) == [K EXCEPT !.ai = K.ai + 1, !.pc = "agent"]

\* Mutant: alive_ticks counts every agent, alive or dead.
RECURSIVE update_stats_all(_, _, _)
update_stats_all(stats, agents, i) ==
    IF i > Len(agents) THEN stats
    ELSE LET a == agents[i]
             st == stats[a.agent_id]
             st2 == [st EXCEPT
                       !.alive_ticks = @ + 1,
                       !.total_cpu = @ + a.cpu_used,
                       !.total_mem_writes = a.mem_writes]
         IN  update_stats_all(DictSet(stats, a.agent_id, st2), agents, i + 1)

\* Mutant: total_mem_writes is added to in every tick, as total_cpu is.
RECURSIVE update_stats_adding(_, _, _)
update_stats_adding(stats, agents, i) ==
    IF i > Len(agents) THEN stats
    ELSE LET a == agents[i]
             st == stats[a.agent_id]
             st2 == [st EXCEPT
                       !.alive_ticks = IF a.alive THEN @ + 1 ELSE @,
                       !.total_cpu = @ + a.cpu_used,
                       !.total_mem_writes = @ + a.mem_writes]
         IN  update_stats_adding(DictSet(stats, a.agent_id, st2), agents, i + 1)

\* Kernel.run, lines 276-280: alive_ticks, total_cpu, total_mem_writes.
RECURSIVE update_stats(_, _, _)
update_stats(stats, agents, i) ==
    IF i > Len(agents) THEN stats
    ELSE LET a == agents[i]
             st == stats[a.agent_id]
             st2 == [st EXCEPT
                       !.alive_ticks = IF a.alive THEN @ + 1 ELSE @,
                       !.total_cpu = @ + a.cpu_used,
                       !.total_mem_writes = a.mem_writes]
         IN  update_stats(DictSet(stats, a.agent_id, st2), agents, i + 1)

\* Kernel.run, lines 282-289: territory_last, territory_sum, territory_max.
RECURSIVE update_territory(_, _, _, _)
update_territory(stats, vm, agents, i) ==
    IF i > Len(agents) THEN stats
    ELSE LET a == agents[i]
             cells == OwnedCells(vm, a.agent_id)
             st == stats[a.agent_id]
             st2 == [st EXCEPT
                       !.territory_last = cells,
                       !.territory_sum = @ + cells,
                       !.territory_max = IF cells > @ THEN cells ELSE @]
         IN  update_territory(DictSet(stats, a.agent_id, st2), vm, agents, i + 1)

\* Mutant: the alive bonus is paid to every agent, alive or dead.
RECURSIVE alive_scoring_everyone(_, _, _, _)
alive_scoring_everyone(score, agents, w, i) ==
    IF i > Len(agents) THEN score
    ELSE LET a == agents[i]
         IN  alive_scoring_everyone(
                 DictSet(score, a.agent_id,
                         DictGet(score, a.agent_id, 0) + w.alive),
                 agents, w, i + 1)

\* Kernel.run, lines 292-296: the alive bonus.
RECURSIVE alive_scoring(_, _, _, _)
alive_scoring(score, agents, w, i) ==
    IF i > Len(agents) THEN score
    ELSE LET a == agents[i]
         IN  alive_scoring(
                 IF a.alive
                 THEN DictSet(score, a.agent_id,
                              DictGet(score, a.agent_id, 0) + w.alive)
                 ELSE score,
                 agents, w, i + 1)

\* Mutant: only agents that are alive get a territory bonus.
RECURSIVE territory_loop_alive(_, _, _, _, _)
territory_loop_alive(score, vm, agents, w, i) ==
    IF i > Len(agents) THEN score
    ELSE LET a == agents[i]
             cells == OwnedCells(vm, a.agent_id)
             buckets == cells \div Max(1, w.territory_bucket)
         IN  territory_loop_alive(
                 IF buckets # 0 /\ a.alive
                 THEN DictSet(score, a.agent_id,
                              DictGet(score, a.agent_id, 0) + buckets * w.territory)
                 ELSE score,
                 vm, agents, w, i + 1)

\* Kernel._apply_territory_scoring: the loop over the agents.
RECURSIVE territory_loop(_, _, _, _, _)
territory_loop(score, vm, agents, w, i) ==
    IF i > Len(agents) THEN score
    ELSE LET a == agents[i]
             cells == OwnedCells(vm, a.agent_id)
             buckets == cells \div Max(1, w.territory_bucket)
         IN  territory_loop(
                 IF buckets # 0
                 THEN DictSet(score, a.agent_id,
                              DictGet(score, a.agent_id, 0) + buckets * w.territory)
                 ELSE score,
                 vm, agents, w, i + 1)

\* Mutant: the territory weight is applied whatever its sign.
apply_territory_scoring_unguarded(score, vm, agents, w) ==
    territory_loop(score, vm, agents, w, 1)

\* Kernel._apply_territory_scoring
apply_territory_scoring(score, vm, agents, w) ==
    IF w.territory <= 0 THEN score
    ELSE territory_loop(score, vm, agents, w, 1)

\* Mutant: the tag of the cell after the one under the pc.
killer_of_next_cell(vm, a) == vm.writer[(a.pc + 1) % ArenaLen(vm)]

\* Kernel.run, line 305: the writer tag under the dead agent's pc.
killer_of(vm, a) == vm.writer[a.pc % ArenaLen(vm)]

\* Mutant: a death on the agent's own cell counts as a kill.
is_kill_own(killer, a) == killer # None /\ killer # ""

\* Kernel.run, line 306: "if killer and killer != a.agent_id".
is_kill(killer, a) == killer # None /\ killer # "" /\ killer # a.agent_id

\* Kernel.run, lines 302-317: kill attribution; acc holds score, stats, events.
RECURSIVE kill_attribution(_, _, _, _, _, _)
kill_attribution(acc, vm, agents, alive_prev, w, i) ==
    IF i > Len(agents) THEN acc
    ELSE LET a == agents[i]
             was_alive == DictGet(alive_prev, a.agent_id, TRUE)
             killer == killer_of(vm, a)
             sc1 == DictSet(acc.score, killer,
                            DictGet(acc.score, killer, 0) + w.kill)
             st1 == DictSet(acc.stats, killer,
                            [acc.stats[killer] EXCEPT !.kills = @ + 1])
             st2 == DictSet(st1, a.agent_id,
                            [st1[a.agent_id] EXCEPT !.deaths = @ + 1])
             st3 == DictSet(acc.stats, a.agent_id,
                            [acc.stats[a.agent_id] EXCEPT !.deaths = @ + 1])
             acc2 ==
                 IF was_alive /\ ~a.alive
                 THEN IF is_kill(killer, a)
                      THEN [score |-> sc1, stats |-> st2,
                            events |-> Append(acc.events,
                                [type |-> "kill", victim |-> a.agent_id,
                                 by |-> killer])]
                      ELSE [score |-> acc.score, stats |-> st3,
                            events |-> Append(acc.events,
                                [type |-> "death", victim |-> a.agent_id])]
                 ELSE acc
         IN  kill_attribution(acc2, vm, agents, alive_prev, w, i + 1)

\* Mutant: alive_prev is never refreshed.
update_alive_prev_stale(alive_prev, agents, i) == alive_prev

\* Kernel.run, lines 332-333: alive_prev[a.agent_id] = a.alive, in agent order.
RECURSIVE update_alive_prev(_, _, _)
update_alive_prev(alive_prev, agents, i) ==
    IF i > Len(agents) THEN alive_prev
    ELSE update_alive_prev(
             DictSet(alive_prev, agents[i].agent_id, agents[i].alive),
             agents, i + 1)

\* sum(1 for a in agents if a.alive)
AliveCount(agents) ==
    Cardinality({i \in 1..Len(agents) : agents[i].alive})

\* Kernel.run, lines 328-335: alive_prev is refreshed and the loop left when
\* at most one agent is alive.
tick_end(K) ==
    [K EXCEPT !.alive_prev = update_alive_prev(K.alive_prev, K.agents, 1),
              !.pc = IF AliveCount(K.agents) <= 1 THEN "resolve" ELSE "loop"]

\* Kernel.run, lines 275-324: what a tick does after the agents were stepped,
\* up to the call of renderer.on_tick: stats, scoring, kill attribution, the
\* tick record.
account_emit(K) ==
    LET w == K.cfg.weights
        stats1 == update_stats(K.stats, K.agents, 1)
        stats2 == update_territory(stats1, K.vm, K.agents, 1)
        score1 == alive_scoring(K.score, K.agents, w, 1)
        score2 == apply_territory_scoring(score1, K.vm, K.agents, w)
        att == kill_attribution(
                   [score |-> score2, stats |-> stats2, events |-> K.events],
                   K.vm, K.agents, K.alive_prev, w, 1)
        K1 == [K EXCEPT !.stats = att.stats, !.score = att.score,
                        !.events = att.events]
        snap == snapshot(K1, att.events)
    IN  [K1 EXCEPT !.sink = Append(K.sink, snap), !.pc = "on_tick"]

\* Kernel.run, lines 275-335 of a kernel without renderer (line 322 is
\* false): the accounting runs through to the end of the tick.
account(K) == tick_end(account_emit(K))

\* Mutant: a tick that was drawn ends without the refresh of alive_prev, so
\* what the renderer did shows in the records of the next tick.
run_on_tick_stale(K, raises) ==
    IF raises THEN [K EXCEPT !.pc = "raised"]
    ELSE [K EXCEPT !.renderer = <<on_tick(@[1])>>,
                   !.pc = IF AliveCount(K.agents) <= 1 THEN "resolve" ELSE "loop"]

\* Kernel.run, lines 324-335: renderer.on_tick either raises (SystemExit
\* when the window was closed), which leaves run at once with alive_prev as
\* it was, or returns, and the tick ends.
run_on_tick(K, raises) ==
    IF raises THEN [K EXCEPT !.pc = "raised"]
    ELSE tick_end([K EXCEPT !.renderer = <<on_tick(@[1])>>])

\* ----- winner resolution and summary -----
\* The agent ids of the model in Python's string order.
IdOrder == <<"A", "B", "C">>
IdRank(id) == CHOOSE i \in 1..Len(IdOrder) : IdOrder[i] = id

\* str.lower() on the win modes of the model.
Lower(str) ==
    CASE str = "SURVIVAL" -> "survival"
      [] str = "SCORE" -> "score"
      [] str = "SCORE_FALLBACK" -> "score_fallback"
      [] OTHER -> str

\* Kernel.run, line 344: (cfg.win_mode or "score_fallback").lower()
mode_of(cfg) == Lower(IF cfg.win_mode = "" THEN "score_fallback" ELSE cfg.win_mode)

\* Mutant: the scores are sorted in ascending order.
KeyBefore_ascending(sx, idx, sy, idy) ==
    sx < sy \/ (sx = sy /\ IdRank(idx) < IdRank(idy))

\* The sort key (-score, id): x sorts strictly before y.
KeyBefore(sx, idx, sy, idy) ==
    sx > sy \/ (sx = sy /\ IdRank(idx) < IdRank(idy))

\* Kernel.run, line 352: sorted(score.items(), key=(-score, id)) as <<id, score>>.
RECURSIVE sorted_items(_, _)
sorted_items(score, ids) ==
    IF ids = {} THEN <<>>
    ELSE LET b == CHOOSE x \in ids :
                    \A y \in ids \ {x} : KeyBefore(score[x], x, score[y], y)
         IN  <<<<b, score[b]>>>> \o sorted_items(score, ids \ {b})

\* [a.agent_id for a in agents if a.alive]
RECURSIVE alive_ids(_, _)
alive_ids(agents, i) ==
    IF i > Len(agents) THEN <<>>
    ELSE (IF agents[i].alive THEN <<agents[i].agent_id>> ELSE <<>>)
         \o alive_ids(agents, i + 1)

\* Mutant: the sole survivor wins in survival and score_fallback only; in
\* mode score the scores alone decide.
resolve_winner_by_score(agents, score, mode) ==
    LET alive == alive_ids(agents, 1)
        top == sorted_items(score, DOMAIN score)
    IN  IF Len(alive) = 1 /\ mode # "score" THEN alive[1]
        ELSE IF mode = "survival" THEN ""
        ELSE IF DOMAIN score # {}
                /\ (Len(top) = 1 \/ top[1][2] > top[2][2])
             THEN top[1][1]
             ELSE ""

\* Kernel.run, lines 343-354: the winner.
resolve_winner(agents, score, mode) ==
    LET alive == alive_ids(agents, 1)
        top == sorted_items(score, DOMAIN score)
    IN  IF Len(alive) = 1 THEN alive[1]
        ELSE IF mode = "survival" THEN ""
        ELSE IF DOMAIN score # {}
                /\ (Len(top) = 1 \/ top[1][2] > top[2][2])
             THEN top[1][1]
             ELSE ""

\* Kernel.run, lines 360-384: one entry of summ_agents. A quotient is kept
\* as the pair <<numerator, denominator>>.
summary_agent(K, a) ==
    LET st == K.stats[a.agent_id]
        ticks_run == K.tick
        arena == K.cfg.arena_size
    IN  [id |-> a.agent_id,
         alive |-> a.alive,
         score |-> DictGet(K.score, a.agent_id, 0),
         alive_ticks |-> st.alive_ticks,
         kills |-> st.kills,
         deaths |-> st.deaths,
         cpu_total |-> st.total_cpu,
         mem_writes |-> st.total_mem_writes,
         territory_last |-> st.territory_last,
         territory_max |-> st.territory_max,
         territory_avg |-> <<st.territory_sum, Max(1, ticks_run)>>,
         territory_pct_last |->
             IF arena # 0 THEN <<st.territory_last * 100, arena>> ELSE <<0, 1>>,
         territory_pct_max |->
             IF arena # 0 THEN <<st.territory_max * 100, arena>> ELSE <<0, 1>>,
         territory_pct_avg |->
             IF arena # 0
             THEN <<st.territory_sum * 100, Max(1, ticks_run) * arena>>
             ELSE <<0, 1>>]

\* sorted(summ_agents, key=(-score, id)): a stable sort, by insertion.
RECURSIVE insert_sorted(_, _)
insert_sorted(sorted, x) ==
    IF sorted = <<>> THEN <<x>>
    ELSE LET last == sorted[Len(sorted)]
         IN  IF KeyBefore(x.score, x.id, last.score, last.id)
             THEN Append(insert_sorted(SubSeq(sorted, 1, Len(sorted) - 1), x), last)
             ELSE Append(sorted, x)

RECURSIVE sorted_summary(_, _, _)
sorted_summary(K, acc, i) ==
    IF i > Len(K.agents) THEN acc
    ELSE sorted_summary(K, insert_sorted(acc, summary_agent(K, K.agents[i])), i + 1)

\* Kernel.run, lines 337-340: the sink is closed; with a renderer, run then
\* calls its on_close.
close_sink(K) == [K EXCEPT !.sink_open = FALSE, !.pc = "on_close"]

\* Kernel.run, lines 342-401: the winner resolved and the summary built; with
\* a renderer, run then calls its on_game_over, without one it returns.
resolve_rest(K) ==
    LET mode == mode_of(K.cfg)
        winner == resolve_winner(K.agents, K.score, mode)
    IN  [K EXCEPT !.winner = winner,
                  !.summary = [winner |-> winner,
                               win_mode |-> mode,
                               ticks |-> K.tick,
                               arena_size |-> K.cfg.arena_size,
                               config |-> K.cfg,
                               score |-> K.score,
                               agents |-> sorted_summary(K, <<>>, 1)],
                  !.pc = IF K.renderer = NoRenderer THEN "done" ELSE "on_game_over"]

\* Kernel.run, lines 337-404 of a kernel without renderer: the sink is
\* closed, the winner resolved, the summary built, the winner returned.
resolve(K) == resolve_rest(close_sink(K))

\* Kernel.run, lines 340-401: renderer.on_close returns, then the winner and
\* the summary; or it raises, and run is left with neither.
run_on_close(K, raises) ==
    IF raises THEN [K EXCEPT !.pc = "raised"]
    ELSE resolve_rest([K EXCEPT !.renderer = <<on_close(@[1])>>])

\* Kernel.run, lines 399-404: renderer.on_game_over raises an Exception,
\* which run swallows (lines 402-403) before it returns the winner; or one
\* turn of its waiting loop is taken, the last one when a key, a click or
\* QUIT was among the events.
run_on_game_over(K, out) ==
    IF out = "raises" THEN [K EXCEPT !.pc = "done"]
    ELSE [K EXCEPT !.renderer = <<on_game_over(@[1])>>,
                   !.pc = IF out = "event" THEN "done" ELSE "on_game_over"]

\* ----- cli._final_from_replay: the reconciliation scan of a replay -----
\* The lines of the replay file read back with json.loads: JSONLSink.emit
\* writes one json.dumps line per record, and a dict of string keys,
\* integers, booleans, strings and lists reads back as the value written.
replay_lines(sink) == sink

\* A_last = B_last = None; A_alive = B_alive = 0; seen_ticks = set()
ScanStart ==
    [A_seen |-> FALSE, A_last |-> 0, B_seen |-> FALSE, B_last |-> 0,
     A_alive |-> 0, B_alive |-> 0, seen_ticks |-> {}]

\* Mutant: the first observed score wins.
scan_scores_first(acc, ev) ==
    IF "score" \in DOMAIN ev
    THEN [acc EXCEPT
            !.A_seen = @ \/ "A" \in DOMAIN ev.score,
            !.A_last = IF "A" \in DOMAIN ev.score /\ ~acc.A_seen
                       THEN ev.score["A"] ELSE @,
            !.B_seen = @ \/ "B" \in DOMAIN ev.score,
            !.B_last = IF "B" \in DOMAIN ev.score /\ ~acc.B_seen
                       THEN ev.score["B"] ELSE @]
    ELSE acc

\* _final_from_replay, lines 35-41: scores, the last one read wins.
scan_scores(acc, ev) ==
    IF "score" \in DOMAIN ev
    THEN [acc EXCEPT
            !.A_seen = @ \/ "A" \in DOMAIN ev.score,
            !.A_last = IF "A" \in DOMAIN ev.score THEN ev.score["A"] ELSE @,
            !.B_seen = @ \/ "B" \in DOMAIN ev.score,
            !.B_last = IF "B" \in DOMAIN ev.score THEN ev.score["B"] ELSE @]
    ELSE acc

\* _final_from_replay, lines 44-52: alive ticks, from the record's "alive"
\* list, once per tick number.
scan_alive(acc, ev) ==
    IF "tick" \in DOMAIN ev /\ "alive" \in DOMAIN ev
       /\ ev.tick \notin acc.seen_ticks
    THEN [acc EXCEPT
            !.seen_ticks = @ \cup {ev.tick},
            !.A_alive = IF \E n \in 1..Len(ev.alive) : ev.alive[n] = "A"
                        THEN @ + 1 ELSE @,
            !.B_alive = IF \E n \in 1..Len(ev.alive) : ev.alive[n] = "B"
                        THEN @ + 1 ELSE @]
    ELSE acc

\* _final_from_replay, lines 26-52: the loop over the lines.
RECURSIVE scan_lines(_, _, _)
scan_lines(acc, lines, i) ==
    IF i > Len(lines) THEN acc
    ELSE scan_lines(scan_alive(scan_scores(acc, lines[i]), lines[i]),
                    lines, i + 1)

\* _final_from_replay: int(A_last or 0) and so on.
final_from_replay(lines) ==
    LET acc == scan_lines(ScanStart, lines, 1)
    IN  [A_score |-> IF acc.A_seen THEN acc.A_last ELSE 0,
         B_score |-> IF acc.B_seen THEN acc.B_last ELSE 0,
         A_alive_ticks |-> acc.A_alive,
         B_alive_ticks |-> acc.B_alive]

\* ----- the state -----
VARIABLES
    cfg, vm, instr_per_tick, agents, tick, sink, sink_open, score,
    alive_prev, stats, rng, renderer,          \* the fields of Kernel
    pc, max_ticks, events, ai, k, winner, summary,   \* Kernel.run: position, locals, results
    spawned,   \* history: the spawn calls made, in order
    steps,     \* history: VM.step invocations per agent (by position) in the current tick
    fatal      \* history: per agent, what held when its fatal step returned (tick 0: none yet)

kvars == <<cfg, vm, instr_per_tick, agents, tick, sink, sink_open, score,
           alive_prev, stats, rng, renderer, pc, max_ticks, events, ai, k,
           winner, summary>>
vars == <<kvars, spawned, steps, fatal>>

\* The kernel as one record.
Kern ==
    [cfg |-> cfg, vm |-> vm, instr_per_tick |-> instr_per_tick,
     agents |-> agents, tick |-> tick, sink |-> sink, sink_open |-> sink_open,
     score |-> score, alive_prev |-> alive_prev, stats |-> stats, rng |-> rng,
     pc |-> pc, max_ticks |-> max_ticks, events |-> events, ai |-> ai, k |-> k,
     winner |-> winner, summary |-> summary, renderer |-> renderer]

\* The next state of the kernel is K2.
Becomes(K2) ==
    /\ cfg' = K2.cfg
    /\ vm' = K2.vm
    /\ instr_per_tick' = K2.instr_per_tick
    /\ agents' = K2.agents
    /\ tick' = K2.tick
    /\ sink' = K2.sink
    /\ sink_open' = K2.sink_open
    /\ score' = K2.score
    /\ alive_prev' = K2.alive_prev
    /\ stats' = K2.stats
    /\ rng' = K2.rng
    /\ pc' = K2.pc
    /\ max_ticks' = K2.max_ticks
    /\ events' = K2.events
    /\ ai' = K2.ai
    /\ k' = K2.k
    /\ winner' = K2.winner
    /\ summary' = K2.summary
    /\ renderer' = K2.renderer

\* ----- the inputs of the model -----
WinModes == {"survival", "score", "score_fallback"}

\* alive 1, kill 5, territory 1 as in the defaults; a bucket the arena of
\* the model can fill.
WeightSet == {Weights(1, 5, 1, 2)}

Seeds == {1337, 2024}

CfgSet ==
    {Config(ArenaSize, q, sd, wm, w) :
        q \in 1..MaxQuota, sd \in Seeds, wm \in WinModes, w \in WeightSet}

\* Agent ids in spawn order: pairwise distinct, as the data model requires.
SpawnIds == <<"A", "B", "C">>

\* Entry points: one that wraps (entry >= N) and one whose code runs over
\* the end of the arena.
Entries == {ArenaSize + 5, ArenaSize - 2}

\* Code blobs: HALT; MOV 0x1FF, STOREI; STORE 0x0100000D.
Codes == {<<HALT>>,
          <<MOV, 255, 1, 0, 0, STOREI>>,
          <<STORE, 13, 0, 0, 1>>}

RunLengths == {0, MaxTicks}

\* ----- guards of Kernel.run's control flow -----
\* Mutant: the loop runs one tick beyond max_ticks.
has_next_tick_inclusive(K) == K.tick <= K.max_ticks

\* line 259: the for loop has another tick.
has_next_tick(K) == K.tick < K.max_ticks

\* lines 265-267: the agent loop is at an agent, alive or not.
at_agent(K) == K.pc = "agent" /\ K.ai <= Len(K.agents)

\* Mutant: the quota loop does not look at the alive flag.
quota_continues_blind(K) == K.k < K.instr_per_tick

\* lines 269-272: another quota iteration runs.
quota_continues(K) == K.k < K.instr_per_tick /\ K.agents[K.ai].alive

\* ----- the run as a function of its inputs -----
\* Kernel.run, lines 259-354: the step the control flow takes from K.
run_next(K) ==
    CASE K.pc = "loop" ->
            IF has_next_tick(K) THEN tick_begin(K) ELSE loop_exit(K)
      [] K.pc = "agent" ->
            IF ~at_agent(K) THEN account(K)
            ELSE IF K.agents[K.ai].alive THEN agent_enter(K) ELSE agent_skip(K)
      [] K.pc = "quota" ->
            IF quota_continues(K) THEN agent_step(K) ELSE agent_leave(K)
      [] K.pc = "resolve" -> resolve(K)
      [] OTHER -> K

\* Kernel.run from its first line to its return.
RECURSIVE run_rest(_)
run_rest(K) == IF K.pc = "done" THEN K ELSE run_rest(run_next(K))

\* The spawn calls of a program, in order: sp[i] = <<id, entry, code>>.
RECURSIVE spawn_all(_, _, _)
spawn_all(K, sp, i) ==
    IF i > Len(sp) THEN K
    ELSE spawn_all(spawn(K, sp[i][1], sp[i][2], sp[i][3]), sp, i + 1)

\* Kernel(c), the spawns sp, then run(max_ticks = mt).
RunFrom(c, sp, mt) == run_rest(run_begin(spawn_all(KernelInit(c), sp, 1), mt))

\* ----- actions -----
InitWith(configs, renderers) ==
    /\ \E r \in renderers : renderer = r
    /\ \E c \in configs : /\ cfg = c
                         /\ vm = KernelInit(c).vm
                         /\ instr_per_tick = KernelInit(c).instr_per_tick
                         /\ rng = KernelInit(c).rng
    /\ agents = <<>>
    /\ tick = 0
    /\ sink = <<>>
    /\ sink_open = TRUE
    /\ score = EmptyDict
    /\ alive_prev = EmptyDict
    /\ stats = EmptyDict
    /\ pc = "init"
    /\ max_ticks = 0
    /\ events = <<>>
    /\ ai = 0
    /\ k = 0
    /\ winner = ""
    /\ summary = <<>>
    /\ spawned = <<>>
    /\ steps = <<>>
    /\ fatal = <<>>

\* Kernel(cfg, sink): no renderer, as the CLI builds it.
InitFrom(configs) == InitWith(configs, {NoRenderer})

Init == InitFrom(CfgSet)

\* kernel.spawn(id, entry, code) before run is called.
SpawnFrom(entries, codes) ==
    /\ pc = "init"
    /\ Len(agents) < Len(SpawnIds)
    /\ \E entry \in entries, code \in codes :
        LET id == SpawnIds[Len(agents) + 1]
            K2 == spawn(Kern, id, entry, code)
        IN  /\ Becomes(K2)
            /\ spawned' = Append(spawned, <<id, entry, code>>)
            /\ fatal' = Append(fatal, [tick |-> 0, step |-> 0, tag |-> None,
                                       agent |-> K2.agents[Len(K2.agents)]])
    /\ steps' = Append(steps, 0)

Spawn == SpawnFrom(Entries, Codes)

\* kernel.run(max_ticks) is called.
RunBegin ==
    /\ pc = "init"
    /\ \E mt \in RunLengths : Becomes(run_begin(Kern, mt))
    /\ UNCHANGED <<spawned, steps, fatal>>

TickBegin ==
    /\ pc = "loop"
    /\ has_next_tick(Kern)
    /\ Becomes(tick_begin(Kern))
    /\ steps' = [i \in 1..Len(agents) |-> 0]
    /\ UNCHANGED <<spawned, fatal>>

LoopExit ==
    /\ pc = "loop"
    /\ ~has_next_tick(Kern)
    /\ Becomes(loop_exit(Kern))
    /\ UNCHANGED <<spawned, steps, fatal>>

AgentSkip ==
    /\ at_agent(Kern)
    /\ ~agents[ai].alive
    /\ Becomes(agent_skip(Kern))
    /\ UNCHANGED <<spawned, steps, fatal>>

AgentEnter ==
    /\ at_agent(Kern)
    /\ agents[ai].alive
    /\ Becomes(agent_enter(Kern))
    /\ UNCHANGED <<spawned, steps, fatal>>

\* One iteration of the quota loop: VM.step and cpu_used += 1.
Step ==
    /\ pc = "quota"
    /\ quota_continues(Kern)
    /\ LET K2 == agent_step(Kern)
       IN  /\ Becomes(K2)
           /\ steps' = [steps EXCEPT ![ai] = @ + 1]
           /\ fatal' = IF agents[ai].alive /\ ~K2.agents[ai].alive
                       THEN [fatal EXCEPT ![ai] =
                               [tick |-> tick, step |-> k + 1,
                                tag |-> K2.vm.writer[K2.agents[ai].pc % ArenaLen(K2.vm)],
                                agent |-> K2.agents[ai]]]
                       ELSE fatal
    /\ UNCHANGED spawned

AgentLeave ==
    /\ pc = "quota"
    /\ ~quota_continues(Kern)
    /\ Becomes(agent_leave(Kern))
    /\ UNCHANGED <<spawned, steps, fatal>>

\* The agents were stepped: accounting and tick record; without a renderer
\* the tick ends in the same step, with one run is now inside on_tick.
Account ==
    /\ pc = "agent"
    /\ ~at_agent(Kern)
    /\ Becomes(IF renderer = NoRenderer THEN account(Kern) ELSE account_emit(Kern))
    /\ UNCHANGED <<spawned, steps, fatal>>

\* The loop was left: without a renderer run goes through to its return,
\* with one the sink is closed and run is now inside on_close.
Resolve ==
    /\ pc = "resolve"
    /\ Becomes(IF renderer = NoRenderer THEN resolve(Kern) ELSE close_sink(Kern))
    /\ UNCHANGED <<spawned, steps, fatal>>

\* renderer.on_init returns, or raises with or without the screen set.
OnInit ==
    /\ pc = "on_init"
    /\ \E out \in {"returns", "raises_before_screen", "raises_after_screen"} :
        Becomes(run_on_init(Kern, out))
    /\ UNCHANGED <<spawned, steps, fatal>>

\* renderer.on_tick raises (the window was closed: SystemExit) or returns.
OnTick ==
    /\ pc = "on_tick"
    /\ \E raises \in BOOLEAN : Becomes(run_on_tick(Kern, raises))
    /\ UNCHANGED <<spawned, steps, fatal>>

\* renderer.on_close returns or raises.
OnClose ==
    /\ pc = "on_close"
    /\ \E raises \in BOOLEAN : Becomes(run_on_close(Kern, raises))
    /\ UNCHANGED <<spawned, steps, fatal>>

\* renderer.on_game_over: it raises, or takes one turn of its waiting loop,
\* with or without an event that ends the wait (at most MaxPolls turns
\* without one are followed).
OnGameOver ==
    /\ pc = "on_game_over"
    /\ \E out \in {"raises", "event", "none"} :
        /\ out = "none" => renderer[1].clock - tick < MaxPolls
        /\ Becomes(run_on_game_over(Kern, out))
    /\ UNCHANGED <<spawned, steps, fatal>>

Next ==
    \/ Spawn
    \/ RunBegin
    \/ TickBegin
    \/ LoopExit
    \/ AgentSkip
    \/ AgentEnter
    \/ Step
    \/ AgentLeave
    \/ Account
    \/ Resolve

Spec == Init /\ [][Next]_vars

\* The steps of Kernel.run: sequential code, which runs on once it is called.
RunSteps ==
    \/ TickBegin
    \/ LoopExit
    \/ AgentSkip
    \/ AgentEnter
    \/ Step
    \/ AgentLeave
    \/ Account
    \/ Resolve

\* One config for the runs checked for termination.
CfgSetLive == {Config(ArenaSize, MaxQuota, 1337, "survival", w) : w \in WeightSet}

InitLive == InitFrom(CfgSetLive)

SpawnLive == SpawnFrom(Entries, Codes)

NextLive ==
    \/ SpawnLive
    \/ RunBegin
    \/ RunSteps

\* A step of run can be taken: run was called and has not returned.
RunEnabled == pc \notin {"init", "done", "raised"}

\* Weak fairness of the steps of run, WF_vars(RunSteps), written out with
\* RunEnabled for ENABLED <<RunSteps>>_vars: a run that was called is not
\* suspended forever (the host calls spawn and run when it likes).
RunFair == []<>(~RunEnabled) \/ []<><<RunEnabled /\ RunSteps>>_vars

SpecLive == InitLive /\ [][NextLive]_vars /\ RunFair

\* ----- end-to-end scenarios: literal configs, spawn scripts, run lengths -----
WriterCode == <<MOV, 65, 0, 0, 0, STORE, 200, 0, 0, 0, JMP, 0, 0, 0, 0>>
NopCode == <<NOP>>
HaltCode == <<HALT>>

\* A kernel built from cfg, the spawn calls made in order, run(max_ticks).
Scenario(c, sp, mt) == [cfg |-> c, spawns |-> sp, max_ticks |-> mt]

\* Writer-only survival: A writes 0x41 to cell 200 for ever, B runs NOPs.
WriterOnly(mode, mt) ==
    Scenario(Config(256, 4, 0, mode, Weights(1, 5, 0, 1)),
             <<<<"A", 0, WriterCode>>, <<"B", 128, NopCode>>>>, mt)

\* The run length of the scenario and a shorter one.
WriterRunLengths == {10, 100}

\* The same with a third agent that halts at once, so that the kernel goes
\* on stepping after a death.
WriterOnlyBystander(mode) ==
    Scenario(Config(256, 4, 0, mode, Weights(1, 5, 0, 1)),
             <<<<"A", 0, WriterCode>>, <<"B", 128, NopCode>>,
               <<"C", 64, HaltCode>>>>, 100)

\* Self-halt: one agent whose first instruction is HALT, Config defaults.
SelfHalt(mode) ==
    Scenario(Config(4096, 8, 1337, mode, Weights(1, 5, 1, 64)),
             <<<<"A", 0, HaltCode>>>>, 10)

Scenarios ==
    {WriterOnly(mode, mt) : mode \in WinModes, mt \in WriterRunLengths}
        \cup {WriterOnlyBystander(mode) : mode \in WinModes}
        \cup {SelfHalt(mode) : mode \in WinModes}

InitScenario == InitFrom({s.cfg : s \in Scenarios})

\* The next spawn call of a scenario's script.
SpawnScenario ==
    /\ pc = "init"
    /\ \E s \in Scenarios :
        /\ s.cfg = cfg
        /\ Len(spawned) < Len(s.spawns)
        /\ SubSeq(s.spawns, 1, Len(spawned)) = spawned
        /\ LET e == s.spawns[Len(spawned) + 1]
               K2 == spawn(Kern, e[1], e[2], e[3])
           IN  /\ Becomes(K2)
               /\ spawned' = Append(spawned, e)
               /\ fatal' = Append(fatal, [tick |-> 0, step |-> 0, tag |-> None,
                                          agent |-> K2.agents[Len(K2.agents)]])
    /\ steps' = Append(steps, 0)

\* run(max_ticks) is called once the script of a scenario is spawned.
RunScenario ==
    /\ pc = "init"
    /\ \E s \in Scenarios :
        /\ s.cfg = cfg
        /\ s.spawns = spawned
        /\ Becomes(run_begin(Kern, s.max_ticks))
    /\ UNCHANGED <<spawned, steps, fatal>>

NextScenario == SpawnScenario \/ RunScenario \/ RunSteps

SpecScenario == InitScenario /\ [][NextScenario]_vars

\* ----- spawn calls the kernel accepts without a check -----
\* Ids that repeat and codes that include the empty one.
IdsUnchecked == {"A", "B"}
CodesUnchecked == {<<>>, <<HALT>>, <<STORE, 13, 0, 0, 1>>}
CfgSetUnchecked ==
    {Config(ArenaSize, MaxQuota, 1337, "score_fallback", Weights(1, 5, 1, 2))}

InitUnchecked == InitFrom(CfgSetUnchecked)

\* kernel.spawn(id, entry, code) before run is called, with any id.
SpawnUnchecked ==
    /\ pc = "init"
    /\ Len(agents) < Len(SpawnIds)
    /\ \E id \in IdsUnchecked, entry \in Entries, code \in CodesUnchecked :
        LET K2 == spawn(Kern, id, entry, code)
        IN  /\ Becomes(K2)
            /\ spawned' = Append(spawned, <<id, entry, code>>)
            /\ fatal' = Append(fatal, [tick |-> 0, step |-> 0, tag |-> None,
                                       agent |-> K2.agents[Len(K2.agents)]])
    /\ steps' = Append(steps, 0)

NextUnchecked == SpawnUnchecked \/ RunBegin \/ RunSteps

SpecUnchecked == InitUnchecked /\ [][NextUnchecked]_vars

\* ----- configs read from dicts -----
\* Dicts handed to Config.from_dict: every field out of its range; only the
\* arena size and the quota given; a key that is no field and a bucket of 0.
DictsIn ==
    {[arena_size |-> ArenaSize, instr_per_tick |-> 0, win_mode |-> "bogus",
      weights |-> [alive |-> -1, kill |-> -5, territory |-> -1,
                   territory_bucket |-> 0]],
     [arena_size |-> ArenaSize, instr_per_tick |-> MaxQuota],
     [arena_size |-> ArenaSize, instr_per_tick |-> 1, colour |-> "red",
      weights |-> [territory_bucket |-> 0]]}

CfgSetFromDict == {from_dict(d) : d \in DictsIn}

CodesFromDict == {<<HALT>>, <<STORE, 13, 0, 0, 1>>}

InitFromDict == InitFrom(CfgSetFromDict)

SpawnFromDict == SpawnFrom(Entries, CodesFromDict)

NextFromDict == SpawnFromDict \/ RunBegin \/ RunSteps

SpecFromDict == InitFromDict /\ [][NextFromDict]_vars

\* ----- configs the kernel accepts without a check -----
\* Weights beside the defaults: a negative alive weight, a negative kill
\* weight with territory switched off and a bucket of 0, a negative
\* territory weight.
WeightSetAny == {Weights(1, 5, 1, 2), Weights(-1, 5, 1, 2),
                 Weights(1, -5, 0, 0), Weights(0, 5, -1, 2)}

CfgSetAny == {Config(ArenaSize, MaxQuota, 1337, "score", w) : w \in WeightSetAny}

InitAny == InitFrom(CfgSetAny)

SpawnAny == SpawnFrom(Entries, Codes)

NextAny ==
    \/ SpawnAny
    \/ RunBegin
    \/ RunSteps

SpecAnyConfig == InitAny /\ [][NextAny]_vars

\* ----- the instruction set at the arena's edges -----
\* One config: the whole quota, the default win mode.
CfgSetISA == {Config(ArenaSize, MaxQuota, 1337, "score_fallback", w) : w \in WeightSet}

\* Code blobs whose operands lie beyond the arena: MOV 0xAA, STORE 18, HALT;
\* MOVP 0xFFFFFFFF, LOADI, ADDP 20, STOREI; LOAD 30, JZ 25;
\* ADD 0xFFFFFFFF, JMP 13; STORE 3, STORE 4 (two writes to adjacent cells);
\* MOV 0xFFFFFFFF, ADD 1 (a sum of 2^32).
CodesISA == {<<MOV, 170, 0, 0, 0, STORE, 18, 0, 0, 0, HALT>>,
             <<STORE, 3, 0, 0, 0, STORE, 4, 0, 0, 0>>,
             <<MOVP, 255, 255, 255, 255, LOADI, ADDP, 20, 0, 0, 0, STOREI>>,
             <<LOAD, 30, 0, 0, 0, JZ, 25, 0, 0, 0>>,
             <<ADD, 255, 255, 255, 255, JMP, 13, 0, 0, 0>>,
             <<MOV, 255, 255, 255, 255, ADD, 1, 0, 0, 0>>}

InitISA == InitFrom(CfgSetISA)

SpawnISA == SpawnFrom(Entries, CodesISA)

NextISA ==
    \/ SpawnISA
    \/ RunBegin
    \/ TickBegin
    \/ LoopExit
    \/ AgentSkip
    \/ AgentEnter
    \/ Step
    \/ AgentLeave
    \/ Account
    \/ Resolve

SpecISA == InitISA /\ [][NextISA]_vars

\* ----- kernels with the repository's renderer -----
\* Every win mode, the whole quota, one seed; the host hands a fresh
\* PygameRenderer to Kernel.
CfgSetRendered ==
    {Config(ArenaSize, MaxQuota, 1337, wm, w) : wm \in WinModes, w \in WeightSet}

InitRendered == InitWith(CfgSetRendered, {<<PygameRenderer>>})

\* The steps of a kernel without renderer and the callbacks of the renderer.
NextRendered ==
    \/ Spawn
    \/ RunBegin
    \/ RunSteps
    \/ OnInit
    \/ OnTick
    \/ OnClose
    \/ OnGameOver

SpecRendered == InitRendered /\ [][NextRendered]_vars

\* Weak fairness of the steps of run and of the callbacks that return by
\* themselves, while run is at a step that needs nobody but the program (it
\* was called, has neither returned nor raised, and is not waiting in
\* on_game_over); nothing makes the user press a key on the last page, so
\* the wait in on_game_over may last forever.
RunFairRendered ==
    \/ []<>(~(RunEnabled /\ pc # "on_game_over"))
    \/ []<><<RunEnabled /\ pc # "on_game_over"
              /\ (RunSteps \/ OnInit \/ OnTick \/ OnClose)>>_vars

SpecRenderedLive == SpecRendered /\ RunFairRendered

\* ----- writes at the seam between the last cell and cell 0 -----
\* STORE to cell N-1, then STORE to cell N (which is cell 0): two writes in
\* a row, the second at the cell "behind" the run the first one made.
SeamCode == <<STORE, ArenaSize - 1, 0, 0, 0, STORE, ArenaSize, 0, 0, 0>>

\* HALT; the seam writer; STOREI with P = 0, a write to cell 0 by one byte.
CodesSeam == {<<HALT>>, SeamCode, <<STOREI>>}

InitSeam == InitFrom(CfgSetISA)

SpawnSeam == SpawnFrom(Entries, CodesSeam)

NextSeam == SpawnSeam \/ RunBegin \/ RunSteps

SpecSeam == InitSeam /\ [][NextSeam]_vars

\* ----- vocabulary of the properties -----
N == cfg.arena_size

AgentIxs == 1..Len(agents)

\* The position of the agent with this id (ids are distinct in Spec).
AgentIdx(id) == CHOOSE i \in AgentIxs : agents[i].agent_id = id

\* The tick records handed to the sink (the header is record 1).
TickRecords == {j \in 1..Len(sink) : sink[j].tick >= 1}

\* The agents were stepped for this tick and the accounting is about to run.
Stepped == pc = "agent" /\ ai > Len(agents)

\* Agent i was alive at the end of the previous tick (or at spawn).
WasAlive(i) ==
    IF Len(sink) <= 1 THEN TRUE ELSE sink[Len(sink)].agents[i].alive

\* Agent i went from alive to not alive in the current tick.
NewlyDead(i) == WasAlive(i) /\ ~agents[i].alive

\* The writer tag of the cell under agent i's pc, as it is now.
TagUnderPc(i) == vm.writer[agents[i].pc % N]

\* The agents that died in this tick on a cell tagged y, y not their own id.
VictimsOf(y) ==
    {i \in AgentIxs : NewlyDead(i) /\ TagUnderPc(i) = y /\ agents[i].agent_id # y}

\* What the alive bonus and the territory bonus add to id's score in this tick.
AliveBonus(id) ==
    IF agents[AgentIdx(id)].alive THEN cfg.weights.alive ELSE 0

TerritoryBonus(id) ==
    IF cfg.weights.territory > 0
    THEN (Cardinality({c \in 0..(N - 1) : vm.writer[c] = id})
            \div (IF cfg.weights.territory_bucket >= 1
                  THEN cfg.weights.territory_bucket ELSE 1))
         * cfg.weights.territory
    ELSE 0

IsKillEvent(e, x, y) ==
    e.type = "kill" /\ e.victim = x /\ e.by = y

IsDeathEvent(e, x) == e.type = "death" /\ e.victim = x

\* How many events of record rec satisfy the test.
KillEvents(rec, x, y) ==
    Cardinality({j \in 1..Len(rec.events) : IsKillEvent(rec.events[j], x, y)})

DeathEvents(rec, x) ==
    Cardinality({j \in 1..Len(rec.events) : IsDeathEvent(rec.events[j], x)})

EventsAbout(rec, x) ==
    Cardinality({j \in 1..Len(rec.events) : rec.events[j].victim = x})

\* The score and kill counter of every agent move in this tick by the alive
\* bonus, the territory bonus and one kill weight per victim credited to it.
ScoresExplained ==
    \A id \in DOMAIN score :
        /\ score'[id] = score[id] + AliveBonus(id) + TerritoryBonus(id)
                          + cfg.weights.kill * Cardinality(VictimsOf(id))
        /\ stats'[id].kills = stats[id].kills + Cardinality(VictimsOf(id))

\* C1. Kill attribution: when the accounting of tick T runs, every agent X
\* that was alive at the end of tick T-1 and is dead now, with the cell under
\* its pc tagged by another agent Y, gets exactly one kill event (victim X,
\* by Y) in the tick-T record; Y's score grows by weights.kill for it (on top
\* of its alive and territory bonus), Y's kills by one per victim, and X's
\* deaths by one.
C1_KillAttribution ==
    [][Stepped =>
        \A x \in AgentIxs :
            LET X == agents[x].agent_id
                Y == TagUnderPc(x)
                rec == sink'[Len(sink')]
            IN  (NewlyDead(x) /\ Y # None /\ Y # X) =>
                    /\ Len(sink') = Len(sink) + 1
                    /\ rec.tick = tick
                    /\ KillEvents(rec, X, Y) = 1
                    /\ EventsAbout(rec, X) = 1
                    /\ score'[Y] = score[Y] + AliveBonus(Y) + TerritoryBonus(Y)
                                     + cfg.weights.kill * Cardinality(VictimsOf(Y))
                    /\ stats'[Y].kills = stats[Y].kills + Cardinality(VictimsOf(Y))
                    /\ stats'[X].deaths = stats[X].deaths + 1]_vars

\* A kill was credited: the last record holds a kill event and the killer's
\* score holds the kill weight.
C1_Witness ==
    /\ Len(sink) >= 2
    /\ \E j \in 1..Len(sink[Len(sink)].events) :
        LET e == sink[Len(sink)].events[j]
        IN  /\ e.type = "kill"
            /\ e.by # e.victim
            /\ score[e.by] >= cfg.weights.kill
            /\ stats[e.by].kills >= 1

\* C2 (as claimed). Every kill or death event follows the writer tag that was
\* under the victim's pc when its fatal step returned: a tag of another agent
\* gives a kill credited to that agent, the victim's own tag or no tag gives
\* a death event, whatever is written to the cell later in the tick.
C2_CreditAtFatalStep ==
    \A j \in TickRecords :
        \A n \in 1..Len(sink[j].events) :
            LET e == sink[j].events[n]
                t == fatal[AgentIdx(e.victim)].tag
            IN  IF t # None /\ t # e.victim
                THEN e.type = "kill" /\ e.by = t
                ELSE e.type = "death"

\* C3. Self-death: when the accounting of tick T runs, every agent X that
\* went from alive to dead in tick T with the cell under its pc tagged X or
\* unowned gets exactly one death event and no kill event in the tick-T
\* record, its deaths grow by one, and every agent's score and kills move
\* only by its own bonuses and the victims credited to it; an agent that did
\* not die in tick T is the victim of no event of the tick-T record, so the
\* death event appears once in the whole run.
C3_SelfDeath ==
    [][Stepped =>
        LET rec == sink'[Len(sink')]
        IN  /\ Len(sink') = Len(sink) + 1
            /\ \A x \in AgentIxs :
                LET X == agents[x].agent_id
                    t == TagUnderPc(x)
                IN  /\ (NewlyDead(x) /\ (t = None \/ t = X)) =>
                            /\ DeathEvents(rec, X) = 1
                            /\ EventsAbout(rec, X) = 1
                            /\ stats'[X].deaths = stats[X].deaths + 1
                            /\ x \notin UNION {VictimsOf(id) : id \in DOMAIN score}
                            /\ ScoresExplained
                            /\ \A j \in TickRecords : EventsAbout(sink[j], X) = 0
                    /\ ~NewlyDead(x) => EventsAbout(rec, X) = 0]_vars

\* An agent died on its own cell in an earlier tick and a later tick record
\* was emitted since: the one death event is in the record of its fatal tick.
C3_Witness ==
    \E x \in AgentIxs :
        /\ fatal[x].tick >= 1
        /\ Len(sink) > fatal[x].tick + 1
        /\ DeathEvents(sink[fatal[x].tick + 1], agents[x].agent_id) = 1
        /\ stats[agents[x].agent_id].deaths = 1

\* C4. Quota fairness: no agent is ever stepped more than instr_per_tick
\* times in a tick; once the agents of a tick were stepped, an agent alive
\* now was stepped exactly instr_per_tick times, an agent that died in this
\* tick at its k-th step exactly k times, and an agent dead before the tick
\* not at all.
C4_QuotaFairness ==
    /\ \A i \in AgentIxs : steps[i] <= cfg.instr_per_tick
    /\ Stepped =>
        \A i \in AgentIxs :
            IF agents[i].alive THEN steps[i] = cfg.instr_per_tick
            ELSE IF fatal[i].tick = tick
                 THEN steps[i] = fatal[i].step /\ steps[i] >= 1
                 ELSE steps[i] = 0

\* After the stepping of a tick with a quota of two: one agent used its whole
\* quota and another died at its first step, leaving the rest unused.
C4_Witness ==
    /\ Stepped
    /\ cfg.instr_per_tick >= 2
    /\ \E i \in AgentIxs : agents[i].alive /\ steps[i] = cfg.instr_per_tick
    /\ \E i \in AgentIxs : fatal[i].tick = tick /\ steps[i] < cfg.instr_per_tick

\* The ids of the agents alive now.
AliveNow == {agents[i].agent_id : i \in {j \in AgentIxs : agents[j].alive}}

\* The ids whose score is strictly greater than every other spawned agent's.
Leaders == {x \in DOMAIN score : \A y \in DOMAIN score \ {x} : score[x] > score[y]}

\* The uniquely highest scorer, "" when there is none.
UniqueTop == IF Leaders = {} THEN "" ELSE CHOOSE x \in Leaders : TRUE

\* C5. Winner resolution: when run has returned, the winner is the only agent
\* alive if exactly one is alive, in every win_mode; otherwise "" in mode
\* survival; otherwise the id whose score is strictly greater than every
\* other spawned agent's score, and "" when the top score is shared.
C5_WinnerResolution ==
    pc = "done" =>
        /\ summary.winner = winner
        /\ IF Cardinality(AliveNow) = 1 THEN winner \in AliveNow
           ELSE IF mode_of(cfg) = "survival" THEN winner = ""
           ELSE winner = UniqueTop

\* A run ended without a sole survivor in a scoring mode, and an agent that
\* is dead won on its strictly highest score.
C5_Witness ==
    /\ pc = "done"
    /\ Cardinality(AliveNow) # 1
    /\ mode_of(cfg) # "survival"
    /\ Cardinality(DOMAIN score) >= 2
    /\ winner # ""
    /\ winner \notin AliveNow

\* C6 (as claimed). In win_mode score the winner is the uniquely highest
\* scorer, or "" when no score is uniquely highest, for every end state, a
\* sole survivor that does not hold the highest score included; in
\* score_fallback the winner is the sole survivor when exactly one agent is
\* alive and the same as in score otherwise.
C6_ScoreModeIgnoresSurvivor ==
    pc = "done" =>
        /\ mode_of(cfg) = "score" => winner = UniqueTop
        /\ mode_of(cfg) = "score_fallback" =>
              IF Cardinality(AliveNow) = 1 THEN winner \in AliveNow
              ELSE winner = UniqueTop

\* The run of the same spawn sequence and max_ticks by a kernel without
\* renderer whose config differs at most in the seed.
ReferenceRun(sd) == RunFrom([cfg EXCEPT !.seed = sd], spawned, max_ticks)

C8_DeadAgentFrozen ==
    \A i \in AgentIxs :
        /\ agents[i].alive <=> fatal[i].tick = 0
        /\ ~agents[i].alive =>
            /\ agents[i] = fatal[i].agent
            /\ fatal[i].tick < tick => steps[i] = 0
            /\ vm_step(vm, agents[i]) = [vm |-> vm, agent |-> agents[i]]

\* The agents of a later tick were stepped; an agent dead since an earlier
\* tick sits on a cell that another agent has since overwritten with a NOP,
\* an instruction it would execute if it were stepped.
C8_Witness ==
    /\ Stepped
    /\ \E i \in AgentIxs :
        /\ ~agents[i].alive
        /\ fatal[i].tick >= 1
        /\ fatal[i].tick < tick
        /\ vm.arena[agents[i].pc % N] = NOP
        /\ vm.writer[agents[i].pc % N] # agents[i].agent_id
        /\ \E j \in AgentIxs : j # i /\ steps[j] >= 1

\* The value of a 32-bit word modulo the arena size, term by term.
WordModN(w) == (w[1] + 256 * w[2] + 65536 * w[3] + (16777216 % N) * w[4]) % N

\* The step being taken is a VM.step of the current agent.
Stepping == pc = "quota" /\ steps' # steps

\* The opcode under the current agent's pc.
OpAtPc == vm.arena[agents[ai].pc % N]

\* The cell a STORE or STOREI of the current agent targets.
StoreTarget ==
    LET ip == agents[ai].pc % N
    IN  IF OpAtPc = STORE
        THEN WordModN(<<vm.arena[(ip + 1) % N], vm.arena[(ip + 2) % N],
                        vm.arena[(ip + 3) % N], vm.arena[(ip + 4) % N]>>)
        ELSE WordModN(agents[ai].regs.P)

\* C9. Ownership on write: a VM.step that executes STORE imm or STOREI leaves
\* the low 8 bits of the agent's A in the cell imm mod N (P mod N for STOREI),
\* tags that cell with the agent's id, raises the agent's mem_writes by
\* exactly 1 and changes no other cell and no other tag; a VM.step of any
\* other instruction, and every step of the kernel outside VM.step once the
\* run has begun, changes no cell and no tag, so that every cell carries one
\* tag at all times, the one of the last agent that wrote it.
C9_OwnershipOnWrite ==
    [][/\ DOMAIN vm.writer = 0..(N - 1)
       /\ DOMAIN vm.arena = 0..(N - 1)
       /\ \A c \in 0..(N - 1) :
            vm.writer[c] \in {None} \cup {agents[i].agent_id : i \in AgentIxs}
       /\ IF Stepping /\ OpAtPc \in {STORE, STOREI}
          THEN /\ vm'.arena[StoreTarget] = agents[ai].regs.A[1]
               /\ vm'.writer[StoreTarget] = agents[ai].agent_id
               /\ agents'[ai].mem_writes = agents[ai].mem_writes + 1
               /\ \A c \in 0..(N - 1) \ {StoreTarget} :
                    /\ vm'.arena[c] = vm.arena[c]
                    /\ vm'.writer[c] = vm.writer[c]
               /\ \A i \in AgentIxs \ {ai} :
                    agents'[i].mem_writes = agents[i].mem_writes
          ELSE pc # "init" =>
                 /\ vm'.arena = vm.arena
                 /\ vm'.writer = vm.writer
                 /\ \A i \in AgentIxs :
                      agents'[i].mem_writes = agents[i].mem_writes]_vars

\* The current agent, its A holding more than 8 bits, has just stored into a
\* cell of another agent's code, which now carries the storing agent's tag
\* and the low byte of its A.
C9_Witness ==
    /\ pc = "quota"
    /\ k >= 1
    /\ agents[ai].mem_writes >= 1
    /\ agents[ai].regs.A[2] >= 1
    /\ Len(vm.tick_diffs) >= 1
    /\ LET d == vm.tick_diffs[Len(vm.tick_diffs)]
           c == d[1] + d[2] - 1
       IN  /\ d[3] = agents[ai].agent_id
           /\ vm.writer[c] = agents[ai].agent_id
           /\ vm.arena[c] = agents[ai].regs.A[1]
           /\ \E j \in AgentIxs \ {ai} :
                c \in {(spawned[j][2] + o) % N : o \in 0..(Len(spawned[j][3]) - 1)}

\* The cells load_code writes for a blob of this length at this entry.
LoadCells(entry, len) == {(entry + o) % N : o \in 0..(len - 1)}

\* The operand of the instruction at cell ip, byte by byte.
OperandAt(ip) ==
    <<vm.arena[(ip + 1) % N], vm.arena[(ip + 2) % N],
      vm.arena[(ip + 3) % N], vm.arena[(ip + 4) % N]>>

\* MOV 0xAA; STORE 18; HALT run for one tick in an arena of 16.
Store18 ==
    RunFrom(Config(16, 8, 1337, "score_fallback", Weights(1, 5, 1, 64)),
            <<<<"A", 0, <<MOV, 170, 0, 0, 0, STORE, 18, 0, 0, 0, HALT>>>>>>, 1)

\* C10. Wrap-around: in every reachable state every agent's pc and region
\* bounds lie in [0, N) (so that the tag kill attribution reads is in range);
\* the cells its next VM.step touches lie in [0, N): the opcode cell, each
\* of the four operand cells pc+1 .. pc+4 reduced modulo N one by one, the
\* LOAD/STORE cell and the jump target, which are the operand modulo N, and
\* the LOADI/STOREI cell, which is P modulo N; a spawn at any entry writes
\* exactly the cells entry+i modulo N and starts the agent at entry modulo N;
\* every memory diff lies in the arena; and STORE 18 in an arena of 16
\* writes cell 2.
C10_WrapAround ==
    /\ \A i \in AgentIxs :
        LET a == agents[i]
            ip == a.pc
        IN  /\ a.pc \in 0..(N - 1)
            /\ a.pc % N = fetch_cell(vm, a)
            /\ a.region[1] \in 0..(N - 1) /\ a.region[2] \in 0..(N - 1)
            /\ a.region[1] = spawned[i][2] % N
            /\ step_cells(vm, a) \subseteq 0..(N - 1)
            /\ rd32_cells(vm, ip + 1) =
                   <<(ip + 1) % N, (ip + 2) % N, (ip + 3) % N, (ip + 4) % N>>
            /\ data_addr(vm, ip) = WordModN(OperandAt(ip))
            /\ jump_addr(vm, ip) = WordModN(OperandAt(ip))
            /\ ptr_addr(vm, a) = WordModN(a.regs.P)
    /\ \A j \in 1..Len(vm.tick_diffs) :
        /\ vm.tick_diffs[j][1] \in 0..(N - 1)
        /\ vm.tick_diffs[j][1] + vm.tick_diffs[j][2] - 1 \in 0..(N - 1)
    /\ \A entry \in Entries, code \in CodesISA :
        LET ld == load_code(vm, entry, code, "A")
        IN  /\ ld.region[1] = entry % N
            /\ ld.region[2] = (entry + Len(code) - 1) % N
            /\ \A c \in 0..(N - 1) :
                IF c \in LoadCells(entry, Len(code))
                THEN /\ ld.vm.writer[c] = "A"
                     /\ \E o \in 1..Len(code) :
                            (entry + o - 1) % N = c /\ ld.vm.arena[c] = code[o]
                ELSE /\ ld.vm.writer[c] = vm.writer[c]
                     /\ ld.vm.arena[c] = vm.arena[c]
    /\ Store18.vm.arena[2] = 170
    /\ Store18.vm.writer[2] = "A"
    /\ Store18.agents[1].mem_writes = 1

\* An agent spawned two cells before the arena's end has executed a MOV whose
\* operand straddles the end and a STORE whose operand is beyond the arena:
\* A holds the operand, the cell operand mod N holds A's low byte under the
\* agent's tag, and the pc has wrapped to below the entry.
C10_Witness ==
    \E i \in AgentIxs :
        LET code == spawned[i][3]
            imm == code[7]
        IN  /\ spawned[i][2] = N - 2
            /\ code[1] = MOV /\ code[6] = STORE
            /\ imm >= N
            /\ agents[i].regs.A = WByte(code[2])
            /\ agents[i].mem_writes = 1
            /\ vm.arena[imm % N] = code[2]
            /\ vm.writer[imm % N] = agents[i].agent_id
            /\ agents[i].pc = (N - 2 + 10) % N
            /\ agents[i].pc < agents[i].region[1]

\* The sum of a sequence of numbers.
RECURSIVE SeqSum(_)
SeqSum(q) == IF q = <<>> THEN 0 ELSE Head(q) + SeqSum(Tail(q))

\* The bytes covered by the runs of the VM's diff list.
DiffBytes(d) == SeqSum([j \in 1..Len(d) |-> d[j][2]])

\* The STORE/STOREI writes the agents made in the tick of record sink[j]:
\* the growth of mem_writes since the record before (0 at spawn).
WritesInRecord(j) ==
    SeqSum([i \in 1..Len(sink[j].agents) |->
              sink[j].agents[i].mem_writes
              - (IF sink[j - 1].tick = 0 THEN 0
                 ELSE sink[j - 1].agents[i].mem_writes)])

\* C11. Diff accumulator: the diff list is empty until the first tick starts
\* (spawn adds no run) and is emptied when a tick starts; a VM.step that
\* executes STORE or STOREI at cell addr for owner w adds one to the length
\* of the last run exactly when last.addr + last.len = addr and last.owner = w
\* and otherwise appends the run (addr, 1, w); no other step touches the
\* list; so in every tick record the lengths of memory_diffs add up to the
\* number of byte writes the agents executed in that tick.
C11_DiffAccumulator ==
    [][/\ pc = "init" => vm.tick_diffs = <<>>
       /\ \A j \in TickRecords :
            SeqSum([n \in 1..Len(sink[j].memory_diffs) |->
                      sink[j].memory_diffs[n].len]) = WritesInRecord(j)
       /\ LET d == vm.tick_diffs
              n == Len(d)
              w == agents[ai].agent_id
          IN  IF Stepping /\ OpAtPc \in {STORE, STOREI}
              THEN /\ DiffBytes(vm'.tick_diffs) = DiffBytes(d) + 1
                   /\ IF n > 0 /\ d[n][1] + d[n][2] = StoreTarget /\ d[n][3] = w
                      THEN vm'.tick_diffs =
                               [d EXCEPT ![n] = <<d[n][1], d[n][2] + 1, w>>]
                      ELSE vm'.tick_diffs = Append(d, <<StoreTarget, 1, w>>)
              ELSE IF pc = "loop" /\ pc' = "agent"
                   THEN vm'.tick_diffs = <<>>
                   ELSE vm'.tick_diffs = d]_vars

\* A second or later tick is under way after a tick that had writes: the
\* list holds a run of two bytes and a run of another owner.
C11_Witness ==
    /\ pc \in {"agent", "quota"}
    /\ tick >= 2
    /\ sink[Len(sink)].memory_diffs # <<>>
    /\ \E a, b \in 1..Len(vm.tick_diffs) :
        /\ vm.tick_diffs[a][2] >= 2
        /\ vm.tick_diffs[b][3] # vm.tick_diffs[a][3]

\* The records in the sink are the header and the tick records of the ticks
\* executed so far, in order.
RecordsInOrder ==
    /\ pc = "init" <=> sink = <<>>
    /\ pc # "init" => sink[1].tick = 0 /\ sink[1].ver = 6
    /\ \A j \in 2..Len(sink) :
        /\ sink[j].tick = j - 1
        /\ sink[j].tick <= max_ticks
    /\ pc \in {"agent", "quota"} => Len(sink) = tick
    /\ pc \in {"loop", "resolve", "done"} => Len(sink) = tick + 1
    /\ pc = "done" => ~sink_open

\* C12. Replay ordering: nothing is emitted before run is called; the first
\* record is the header with tick 0; the records after it carry the ticks
\* 1, 2, 3, ... in steps of one, none above max_ticks; while the agents of
\* tick T are stepped the last record is the one of tick T-1 (the header for
\* T = 1), and once tick T is accounted its record is the last, so there is
\* one record per executed tick; after the loop has ended the sink receives
\* nothing more and is closed.
C12_ReplayOrdering ==
    [][/\ RecordsInOrder
       /\ RecordsInOrder'
       /\ pc \in {"resolve", "done"} => sink' = sink]_vars

\* A run of max_ticks ticks has returned: the sink holds the header and one
\* record for each of the ticks 1 .. max_ticks, and is closed.
C12_Witness ==
    /\ pc = "done"
    /\ max_ticks >= 2
    /\ tick = max_ticks
    /\ Len(sink) = max_ticks + 1
    /\ sink[Len(sink)].tick = max_ticks
    /\ ~sink_open

\* The agents a tick record reports alive.
AliveInRecord(j) == {i \in 1..Len(sink[j].agents) : sink[j].agents[i].alive}

\* The loop of run has stopped only for one of its two reasons and not later
\* than the first of them.
StopsWhenDue ==
    /\ tick <= max_ticks
    /\ \A j \in TickRecords :
        sink[j].tick < tick => Cardinality(AliveInRecord(j)) >= 2
    /\ pc = "loop" /\ tick >= 1 => Cardinality(AliveInRecord(Len(sink))) >= 2
    /\ pc \in {"resolve", "on_close", "on_game_over", "done", "raised"} =>
        /\ Len(sink) = tick + 1
        /\ \/ tick = max_ticks
           \/ tick >= 1 /\ Cardinality(AliveInRecord(Len(sink))) <= 1

\* C13 (as claimed). Termination: a run that was called returns; it executes
\* the ticks 1, 2, ... and leaves the loop after the first tick at whose end
\* at most one agent is alive or after tick max_ticks, whichever comes
\* first, and for no other reason; the tick counter is then the number of
\* ticks executed, max_ticks when every earlier tick ended with two agents
\* alive. It holds of a kernel without renderer (SpecLive); with a renderer
\* run is also left by what a callback raises, and waits in on_game_over.
C13_Termination ==
    /\ [](StopsWhenDue)
    /\ (pc = "loop") ~> (pc = "done")

\* C14 (as claimed). Scoring monotonicity: in the first tick record every
\* score is >= 0 and in every later tick record every agent's score is
\* greater than or equal to its score in the record before, for every config
\* the kernel accepts.
C14_ScoresNonDecreasing ==
    \A j \in TickRecords :
        \A id \in DOMAIN sink[j].score :
            IF sink[j - 1].tick = 0
            THEN sink[j].score[id] >= 0
            ELSE sink[j].score[id] >= sink[j - 1].score[id]

\* C15. Replay suffix: once the record of a tick is emitted the score map
\* does not change until the next tick starts, so when run has returned the
\* score map of the last tick record is the kernel's score map, and the
\* replay scan (last observed score wins, 0 when no record carries one)
\* gives A_score = score["A"] and B_score = score["B"] (0 for an id that was
\* not spawned).
C15_ReplaySuffix ==
    /\ pc \in {"loop", "resolve", "done"} /\ tick >= 1 =>
            sink[Len(sink)].score = score
    /\ pc = "done" =>
        LET f == final_from_replay(replay_lines(sink))
        IN  /\ f.A_score = DictGet(score, "A", 0)
            /\ f.B_score = DictGet(score, "B", 0)
            /\ summary.score = score

\* A run of two or more ticks has returned; A and B were spawned and their
\* final scores differ from each other and from those of the first tick.
C15_Witness ==
    /\ pc = "done"
    /\ tick >= 2
    /\ {"A", "B"} \subseteq DOMAIN score
    /\ score["A"] # score["B"]
    /\ sink[2].score["A"] # score["A"]
    /\ sink[2].score["B"] # score["B"]

\* The tick records of the replay that report agent id alive.
TicksAliveInRecords(id) ==
    {j \in TickRecords :
        \E i \in 1..Len(sink[j].agents) :
            sink[j].agents[i].id = id /\ sink[j].agents[i].alive}

\* C16 (as claimed). Replay-derived alive ticks: when run has returned, the
\* reconciliation helper applied to the replay gives, for A and for B, the
\* number of ticks whose record reports the agent alive, which is the
\* kernel's stats[id].alive_ticks.
C16_ReplayAliveTicks ==
    pc = "done" =>
        LET f == final_from_replay(replay_lines(sink))
        IN  /\ "A" \in DOMAIN stats =>
                /\ f.A_alive_ticks = Cardinality(TicksAliveInRecords("A"))
                /\ f.A_alive_ticks = stats["A"].alive_ticks
            /\ "B" \in DOMAIN stats =>
                /\ f.B_alive_ticks = Cardinality(TicksAliveInRecords("B"))
                /\ f.B_alive_ticks = stats["B"].alive_ticks

\* The ids of the agents spawned so far.
SpawnedIds == {agents[i].agent_id : i \in 1..Len(agents)}

\* Every writer tag is unowned or the id of a spawned agent.
TagsKnown == \A c \in DOMAIN vm.writer : vm.writer[c] \in {None} \cup SpawnedIds

\* Between two ticks and after the run the territory statistics count the
\* cells tagged with the agent's id, whether the agent is alive or not.
TerritoryCounted ==
    pc \in {"loop", "resolve", "done"} /\ tick >= 1 =>
        \A i \in 1..Len(agents) :
            stats[agents[i].agent_id].territory_last =
                OwnedCells(vm, agents[i].agent_id)

\* Some agent that was alive is dead after the step.
SomeDeath ==
    \E i \in 1..Len(agents) : agents[i].alive /\ ~agents'[i].alive

\* C17. Writer tags: the tag of every cell is unowned or the id of a spawned
\* agent; no step changes a tag from an agent id to unowned; a step in which
\* an agent dies changes no tag, and the cells tagged with a dead agent's id
\* stay counted as its territory.
C17_WriterTags ==
    [][/\ TagsKnown /\ TagsKnown'
       /\ TerritoryCounted /\ TerritoryCounted'
       /\ \A c \in DOMAIN vm.writer : vm.writer[c] # None => vm'.writer[c] # None
       /\ SomeDeath => vm'.writer = vm.writer]_vars

\* A run has returned after two or more ticks; an agent reported dead in the
\* record of an earlier tick still has cells counted as territory, and a
\* cell of another agent's loaded region carries a different agent's tag.
C17_Witness ==
    /\ pc = "done"
    /\ tick >= 2
    /\ \E i \in 1..Len(agents) :
          /\ ~sink[2].agents[i].alive
          /\ stats[agents[i].agent_id].territory_last > 0
          /\ OwnedCells(vm, agents[i].agent_id) > 0
    /\ \E i \in 1..Len(agents) :
          /\ agents[i].alive
          /\ agents[i].mem_writes > 0
          /\ \E j \in 1..Len(agents) :
                /\ j # i
                /\ vm.writer[agents[j].region[1]] = agents[i].agent_id

\* C18 (as claimed). Writer-only survival: the run of the scenario with
\* max_ticks = 100 executes all 100 ticks, both agents are alive at the end
\* of tick 100, no tick record carries a kill or death event, and the winner
\* under survival is "".
C18_WriterOnlySurvival ==
    \A mode \in WinModes :
        /\ cfg = WriterOnly(mode, 100).cfg
        /\ spawned = WriterOnly(mode, 100).spawns
        /\ max_ticks = 100
        /\ pc = "done"
        => /\ tick = 100
           /\ Len(sink) = 101
           /\ \A i \in 1..Len(agents) : agents[i].alive
           /\ \A j \in TickRecords : sink[j].events = <<>>
           /\ mode = "survival" => winner = ""

\* C19. Self-halt: the run of the single agent A with code HALT executes
\* exactly one tick; A is dead at its end, the record of tick 1 carries the
\* one event {type: death, victim: A}, the score of A is what it was before
\* the run, and the winner is "A" under score_fallback and score and ""
\* under survival.
C19_SelfHalt ==
    \A mode \in WinModes :
        /\ cfg = SelfHalt(mode).cfg
        /\ spawned = SelfHalt(mode).spawns
        /\ pc # "init"
        => /\ tick <= 1
           /\ score = [id \in {"A"} |-> 0]
           /\ \A j \in TickRecords :
                /\ ~sink[j].agents[1].alive
                /\ sink[j].events = <<[type |-> "death", victim |-> "A"]>>
                /\ sink[j].score = score
           /\ pc \in {"resolve", "done"} =>
                /\ tick = 1
                /\ Len(sink) = 2
                /\ ~agents[1].alive
           /\ pc = "done" =>
                winner = (IF mode = "survival" THEN "" ELSE "A")

\* The self-halt run has returned "A" under score_fallback, after one tick
\* whose record reports the death of A.
C19_Witness ==
    /\ cfg = SelfHalt("score_fallback").cfg
    /\ spawned = SelfHalt("score_fallback").spawns
    /\ pc = "done"
    /\ max_ticks = 10
    /\ tick = 1
    /\ winner = "A"
    /\ sink[2].events = <<[type |-> "death", victim |-> "A"]>>

\* The step is a spawn call whose id was used by an earlier spawn call on
\* this kernel, or whose code is empty.
BadSpawnCall ==
    /\ Len(spawned') = Len(spawned) + 1
    /\ LET e == spawned'[Len(spawned')]
       IN  \/ \E i \in 1..Len(spawned) : spawned[i][1] = e[1]
           \/ e[3] = <<>>

\* C20 (as claimed). Spawn validation: a spawn call with an id already used
\* on the kernel, or with zero-length code, is rejected and leaves the arena
\* bytes, the writer tags, the agent list, the score map and the stats map
\* as they were before the call.
C20_SpawnValidation ==
    [][BadSpawnCall =>
          /\ vm'.arena = vm.arena
          /\ vm'.writer = vm.writer
          /\ agents' = agents
          /\ score' = score
          /\ stats' = stats]_vars

\* The legal ranges of the config fields.
ConfigInRange(c) ==
    /\ c.arena_size >= 256
    /\ c.instr_per_tick >= 1
    /\ c.weights.alive >= 0
    /\ c.weights.kill >= 0
    /\ c.weights.territory >= 0
    /\ c.weights.territory_bucket >= 1
    /\ c.win_mode \in WinModes

\* C21 (as claimed). Config clamping: the config built from a dict with
\* out-of-range values has every field inside its legal range, and the
\* kernel runs with these values: its arena has cfg.arena_size cells, its
\* quota is cfg.instr_per_tick, and the header and the summary carry the
\* clamped config.
C21_ConfigClamping ==
    /\ ConfigInRange(cfg)
    /\ ArenaLen(vm) = cfg.arena_size
    /\ instr_per_tick = cfg.instr_per_tick
    /\ Len(sink) >= 1 => ConfigInRange(sink[1].config)
    /\ pc = "done" => ConfigInRange(summary.config)

\* The cells covered by the runs of the diff accumulator whose owner is id.
CellsWrittenBy(id) ==
    {c \in DOMAIN vm.arena :
        \E j \in 1..Len(vm.tick_diffs) :
            /\ vm.tick_diffs[j][3] = id
            /\ vm.tick_diffs[j][1] <= c
            /\ c < vm.tick_diffs[j][1] + vm.tick_diffs[j][2]}

\* The step is a VM.step of the agent at position ai.
IsVMStep == pc = "quota" /\ steps' # steps

\* C22. Intra-tick ordering: when an agent is stepped, every agent spawned
\* before it that is alive has used its whole quota in this tick and no agent
\* spawned after it has been stepped in this tick; the writes of the tick so
\* far are those of the agents up to it, and the step decodes the arena as
\* these writes left it. So an earlier agent's write of tick T is seen by a
\* later agent in tick T, and a later agent's write by an earlier agent not
\* before tick T + 1.
C22_IntraTickOrder ==
    [][IsVMStep =>
          /\ \A j \in AgentIxs : j > ai => steps[j] = 0
          /\ \A j \in AgentIxs :
                j < ai /\ agents[j].alive => steps[j] = instr_per_tick
          /\ steps'[ai] = steps[ai] + 1
          /\ \A j \in 1..Len(vm.tick_diffs) :
                \E i \in 1..ai : agents[i].agent_id = vm.tick_diffs[j][3]
          /\ vm' = vm_step(vm, agents[ai]).vm
          /\ agents'[ai].alive = vm_step(vm, agents[ai]).agent.alive
          /\ agents'[ai].pc = vm_step(vm, agents[ai]).agent.pc
          /\ agents'[ai].regs = vm_step(vm, agents[ai]).agent.regs]_vars

\* An agent has died in this tick on a cell that an agent spawned before it
\* wrote in this same tick.
C22_Witness ==
    /\ Stepped
    /\ \E x \in AgentIxs :
        \E y \in AgentIxs :
            /\ y < x
            /\ fatal[x].tick = tick
            /\ agents[y].mem_writes > 0
            /\ agents[x].pc \in CellsWrittenBy(agents[y].agent_id)
            /\ vm.arena[agents[x].pc] >= 12

\* C23 (as claimed). cpu_used in the tick record: for every agent, alive or
\* dead, the cpu_used of the record of a tick is the number of instructions
\* the agent executed in that tick, 0 for an agent that was dead when the
\* tick started.
C23_CpuUsedPerTick ==
    pc \in {"loop", "resolve", "done"} /\ tick >= 1 =>
        \A i \in AgentIxs :
            /\ sink[Len(sink)].agents[i].cpu_used = steps[i]
            /\ fatal[i].tick \in 1..(tick - 1) =>
                  sink[Len(sink)].agents[i].cpu_used = 0

\* Between two ticks and after the run: an agent alive now was alive at the
\* end of every tick run so far, a dead agent at the end of the ticks before
\* the one it died in.
AliveTicksCounted ==
    pc \in {"loop", "resolve", "done"} =>
        \A i \in AgentIxs :
            stats[agents[i].agent_id].alive_ticks =
                (IF agents[i].alive THEN tick ELSE fatal[i].tick - 1)

\* C24. Alive accounting: the accounting of a tick adds 1 to alive_ticks and
\* weights.alive to the score of every agent alive after the stepping, and
\* neither to an agent that is not alive (the score moves by the alive
\* bonus, the territory bonus and the kill credits of the tick); an agent
\* that died in tick T has alive_ticks = T - 1 from then on, an agent alive
\* at the end of the run has alive_ticks = the number of ticks run.
C24_AliveAccounting ==
    [][/\ AliveTicksCounted /\ AliveTicksCounted'
       /\ Stepped =>
            \A i \in AgentIxs :
                LET id == agents[i].agent_id
                IN  /\ stats'[id].alive_ticks =
                          stats[id].alive_ticks
                              + (IF agents[i].alive THEN 1 ELSE 0)
                    /\ score'[id] =
                          score[id]
                              + (IF agents[i].alive THEN cfg.weights.alive ELSE 0)
                              + TerritoryBonus(id)
                              + cfg.weights.kill * Cardinality(VictimsOf(id))]_vars

\* A run of three ticks has returned: one agent was alive at the end of all
\* of them, another died in the second tick and has one alive tick.
C24_Witness ==
    /\ pc = "done"
    /\ tick = 3
    /\ \E i \in AgentIxs :
          agents[i].alive /\ stats[agents[i].agent_id].alive_ticks = 3
    /\ \E i \in AgentIxs :
          /\ ~agents[i].alive
          /\ fatal[i].tick = 2
          /\ stats[agents[i].agent_id].alive_ticks = 1

\* The cells tagged with the id, as the stepping of the tick left them.
CellsOf(id) == Cardinality({c \in DOMAIN vm.writer : vm.writer[c] = id})

\* C25. Territory bonus: the accounting of a tick adds
\* (cells // max(1, territory_bucket)) * weights.territory to the score of
\* every agent when weights.territory > 0 and nothing when it is <= 0, cells
\* being the cells tagged with the agent's id after the stepping of the tick
\* (the rest of the score's change is the alive bonus and the kill credits);
\* it sets territory_last to cells, adds cells to territory_sum and keeps
\* territory_max the running maximum.
C25_TerritoryBonus ==
    [][Stepped =>
          \A i \in AgentIxs :
              LET id == agents[i].agent_id
                  cells == CellsOf(id)
                  w == cfg.weights
                  bonus == IF w.territory > 0
                           THEN (cells \div Max(1, w.territory_bucket))
                                    * w.territory
                           ELSE 0
              IN  /\ score'[id] = score[id] + AliveBonus(id) + bonus
                                     + w.kill * Cardinality(VictimsOf(id))
                  /\ stats'[id].territory_last = cells
                  /\ stats'[id].territory_sum = stats[id].territory_sum + cells
                  /\ stats'[id].territory_max =
                        Max(stats[id].territory_max, cells)]_vars

\* After the second tick of a run with a positive territory weight an agent
\* owns more cells than in the first tick, at least one bucket, and has been
\* paid for both ticks.
C25_Witness ==
    /\ pc \in {"loop", "resolve", "done"}
    /\ tick = 2
    /\ cfg.weights.territory > 0
    /\ \E i \in AgentIxs :
          LET id == agents[i].agent_id
              st == stats[id]
          IN  /\ st.territory_last \div Max(1, cfg.weights.territory_bucket) >= 1
              /\ st.territory_sum > st.territory_last
              /\ st.territory_sum < 2 * st.territory_last
              /\ st.territory_max = st.territory_last

\* C26. Agent faults are silent deaths: a VM.step that decodes HALT or a
\* byte >= 12 under the agent's pc clears alive and leaves the agent's pc,
\* registers and mem_writes, the arena bytes, the writer tags and the diff
\* list as they were, and the kernel goes on with its quota loop; a step
\* that decodes any other opcode leaves the agent alive.
C26_SilentDeath ==
    [][IsVMStep =>
          LET a == agents[ai]
              op == vm.arena[a.pc % ArenaLen(vm)]
          IN  /\ pc' = "quota"
              /\ IF op = HALT \/ op >= 12
                 THEN /\ agents'[ai] = [a EXCEPT !.alive = FALSE,
                                                  !.cpu_used = @ + 1]
                      /\ vm' = vm
                 ELSE agents'[ai].alive]_vars

\* An agent with a value in its registers has died on a byte that is no
\* opcode, and is as its fatal step left it.
C26_Witness ==
    \E x \in AgentIxs :
        /\ fatal[x].tick >= 1
        /\ ~agents[x].alive
        /\ vm.arena[agents[x].pc] >= 12
        /\ agents[x].regs.A # WZero
        /\ agents[x].mem_writes >= 1
        /\ agents[x] = fatal[x].agent

\* C27. Zero flag: a VM.step that executes ADD, LOAD or LOADI leaves Z = 1
\* if the new A is 0 and Z = 0 otherwise; a step of any other opcode, HALT
\* and bytes that are no opcode included, leaves Z as it was; JZ sets the pc
\* to its operand modulo N when Z is 1 and to pc + 5 modulo N when it is
\* not; a spawned agent starts with Z = 0.
C27_ZeroFlag ==
    [][/\ pc = "init" => \A i \in 1..Len(agents') : agents'[i].regs.Z = 0
       /\ Stepping =>
            LET a == agents[ai]
                b == agents'[ai]
                ip == a.pc % N
            IN  /\ IF OpAtPc \in {ADD, LOAD, LOADI}
                   THEN b.regs.Z = (IF b.regs.A = <<0, 0, 0, 0>> THEN 1 ELSE 0)
                   ELSE b.regs.Z = a.regs.Z
                /\ OpAtPc = JZ =>
                      b.pc = (IF a.regs.Z = 1
                              THEN WordModN(OperandAt(ip))
                              ELSE (ip + 5) % N)]_vars

\* In one run a JZ was taken with Z = 1 by one agent, and another agent
\* holds Z = 0 with a value other than 0 in A after an ADD, LOAD or LOADI.
C27_Witness ==
    /\ \E x \in AgentIxs :
          /\ agents[x].regs.Z = 1
          /\ agents[x].regs.A = <<0, 0, 0, 0>>
          /\ steps[x] >= 2
          /\ agents[x].pc = 25 % N
    /\ \E y \in AgentIxs :
          /\ agents[y].regs.Z = 0
          /\ agents[y].regs.A # <<0, 0, 0, 0>>
          /\ vm.arena[agents[y].region[1]] \in {ADD, LOAD}

\* A register value in [0, 2^32): four bytes.
IsWord(w) == Len(w) = 4 /\ \A j \in 1..4 : w[j] \in 0..255

\* The low and the high 16 bits of a word.
Lo16(w) == w[1] + 256 * w[2]
Hi16(w) == w[3] + 256 * w[4]

\* r = (x + y) mod 2^32, in 16-bit halves.
IsSum32(r, x, y) ==
    LET lo == Lo16(x) + Lo16(y)
        hi == Hi16(x) + Hi16(y) + (lo \div 65536)
    IN  /\ Lo16(r) = lo % 65536
        /\ Hi16(r) = hi % 65536

\* Every agent's A and P are 32-bit values and its Z is 0 or 1.
RegistersInRange ==
    \A i \in AgentIxs :
        /\ IsWord(agents[i].regs.A)
        /\ IsWord(agents[i].regs.P)
        /\ agents[i].regs.Z \in {0, 1}

\* C28. Register arithmetic is 32-bit unsigned: A and P are always in
\* [0, 2^32) and Z is 0 or 1; ADD leaves (A + imm) mod 2^32 in A and ADDP
\* (P + imm) mod 2^32 in P; STOREI writes and LOADI reads the cell P mod N,
\* STORE writes and LOAD reads the cell imm mod N, JMP and a taken JZ set the
\* pc to imm mod N, imm being the 32-bit operand.
C28_RegisterArithmetic ==
    [][/\ RegistersInRange /\ RegistersInRange'
       /\ Stepping =>
            LET a == agents[ai]
                b == agents'[ai]
                ip == a.pc % N
                imm == OperandAt(ip)
            IN  /\ OpAtPc = ADD => IsSum32(b.regs.A, a.regs.A, imm)
                /\ OpAtPc = ADDP => IsSum32(b.regs.P, a.regs.P, imm)
                /\ OpAtPc = STOREI =>
                      /\ vm'.arena[WordModN(a.regs.P)] = a.regs.A[1]
                      /\ vm'.writer[WordModN(a.regs.P)] = a.agent_id
                /\ OpAtPc = LOADI =>
                      b.regs.A = <<vm.arena[WordModN(a.regs.P)], 0, 0, 0>>
                /\ OpAtPc = STORE =>
                      /\ vm'.arena[WordModN(imm)] = a.regs.A[1]
                      /\ vm'.writer[WordModN(imm)] = a.agent_id
                /\ OpAtPc = LOAD =>
                      b.regs.A = <<vm.arena[WordModN(imm)], 0, 0, 0>>
                /\ OpAtPc = JMP => b.pc = WordModN(imm)
                /\ OpAtPc = JZ /\ a.regs.Z = 1 => b.pc = WordModN(imm)]_vars

\* An agent's A has wrapped to 0 (MOV 0xFFFFFFFF, ADD 1), which has set Z.
C28_Witness ==
    \E x \in AgentIxs :
        /\ vm.arena[agents[x].region[1]] = MOV
        /\ OperandAt(agents[x].region[1]) = <<255, 255, 255, 255>>
        /\ agents[x].pc = (agents[x].region[1] + 10) % N
        /\ agents[x].regs.A = <<0, 0, 0, 0>>
        /\ agents[x].regs.Z = 1

\* The step is a spawn call.
IsSpawnCall == Len(spawned') = Len(spawned) + 1

\* C29. Spawn effect: spawn(id, entry, code) leaves code[i] in the cell
\* (entry + i) mod N for every i and tags exactly those cells with id; every
\* other cell and tag is as before; the agent list grows by one alive agent
\* with pc = entry mod N, registers 0, counters 0 and region
\* (entry mod N, (entry + max(1, len(code)) - 1) mod N); score[id] is 0 and
\* stats[id] is the zeroed entry, the entries of other ids are as before;
\* the diff accumulator stays empty.
C29_SpawnEffect ==
    [][IsSpawnCall =>
          LET e == spawned'[Len(spawned')]
              id == e[1]
              entry == e[2]
              code == e[3]
              cells == {(entry + o) % N : o \in 0..(Len(code) - 1)}
          IN  /\ \A o \in 0..(Len(code) - 1) :
                    /\ vm'.arena[(entry + o) % N] = code[o + 1]
                    /\ vm'.writer[(entry + o) % N] = id
              /\ \A c \in (0..(N - 1)) \ cells :
                    /\ vm'.arena[c] = vm.arena[c]
                    /\ vm'.writer[c] = vm.writer[c]
              /\ vm'.tick_diffs = <<>>
              /\ agents' = Append(agents,
                    [agent_id |-> id, pc |-> entry % N, alive |-> TRUE,
                     regs |-> [A |-> <<0, 0, 0, 0>>, Z |-> 0,
                               P |-> <<0, 0, 0, 0>>],
                     cpu_used |-> 0, mem_writes |-> 0,
                     region |-> <<entry % N,
                                  (entry + (IF Len(code) >= 1 THEN Len(code)
                                            ELSE 1) - 1) % N>>])
              /\ DOMAIN score' = DOMAIN score \cup {id}
              /\ DOMAIN stats' = DOMAIN stats \cup {id}
              /\ score'[id] = 0
              /\ stats'[id] = [alive_ticks |-> 0, total_cpu |-> 0,
                               total_mem_writes |-> 0, kills |-> 0,
                               deaths |-> 0, territory_max |-> 0,
                               territory_sum |-> 0, territory_last |-> 0]
              /\ \A x \in DOMAIN score \ {id} : score'[x] = score[x]
              /\ \A x \in DOMAIN stats \ {id} : stats'[x] = stats[x]]_vars

\* Two agents were spawned; the code of the second runs over the end of the
\* arena and lies on the entry cell of the first.
C29_Witness ==
    /\ pc = "init"
    /\ Len(agents) = 2
    /\ agents[2].region[2] < agents[2].region[1]
    /\ agents[1].pc = agents[2].pc
    /\ vm.writer[agents[1].pc] = agents[2].agent_id
    /\ vm.arena[agents[2].pc] = STORE
    /\ vm.arena[agents[2].region[2]] = 1

\* Every cell without a writer tag holds the byte 0.
UnownedCellsZero ==
    \A c \in DOMAIN vm.arena : vm.writer[c] = None => vm.arena[c] = 0

\* The cell under the pc of every dead agent has a writer tag.
DeadOnOwnedCell ==
    \A i \in AgentIxs : ~agents[i].alive => vm.writer[agents[i].pc % N] # None

\* C30. Every unowned cell holds the byte 0 (NOP); no agent dies with its pc
\* on an unowned cell; every death event (as opposed to kill event) of a
\* tick record is about an agent that died in that tick with its own id as
\* the writer tag of the cell under its pc.
C30_UnownedCellsAreNop ==
    [][/\ UnownedCellsZero /\ UnownedCellsZero'
       /\ DeadOnOwnedCell /\ DeadOnOwnedCell'
       /\ Stepped =>
            LET rec == sink'[Len(sink')]
            IN  \A j \in 1..Len(rec.events) :
                    rec.events[j].type = "death" =>
                        \E i \in AgentIxs :
                            /\ agents[i].agent_id = rec.events[j].victim
                            /\ NewlyDead(i)
                            /\ TagUnderPc(i) = agents[i].agent_id]_vars

\* The record of the last tick carries the death event of an agent that
\* lies on a cell with its own tag, while another agent, alive, has its pc
\* on an unowned cell.
C30_Witness ==
    /\ pc \in {"loop", "resolve", "done"}
    /\ tick >= 1
    /\ \E x \in AgentIxs :
          /\ ~agents[x].alive
          /\ DeathEvents(sink[Len(sink)], agents[x].agent_id) = 1
          /\ TagUnderPc(x) = agents[x].agent_id
    /\ \E y \in AgentIxs :
          /\ agents[y].alive
          /\ vm.writer[agents[y].pc] = None

\* The control state of agent i: what VM.step alone may change.
Control(a) == <<a.alive, a.pc, a.regs>>

\* C31. The alive flag only goes from true to false, and only in the agent's
\* own VM.step when the byte under its pc is HALT or >= 12; every step that
\* is not a VM.step of agent i (the steps of other agents, the skip, the
\* quota loop's entry and exit, the accounting, the winner resolution) leaves
\* i's alive flag, pc and registers as they were, and a VM.step of agent i
\* sets them to what VM.step computes from the arena and i alone; a dead
\* agent stays dead.
C31_AliveOnlyFalls ==
    [][\A i \in AgentIxs :
          /\ i \in 1..Len(agents')
          /\ agents'[i].alive => agents[i].alive
          /\ (agents[i].alive /\ ~agents'[i].alive) =>
                /\ Stepping
                /\ i = ai
                /\ (OpAtPc = HALT \/ OpAtPc >= 12)
          /\ ~(Stepping /\ i = ai) => Control(agents'[i]) = Control(agents[i])
          /\ (Stepping /\ i = ai) =>
                Control(agents'[i]) = Control(vm_step(vm, agents[i]).agent)]_vars

\* The accounting of a tick has run in which one agent died by its own step
\* on a cell another agent had written, while an agent stepped after it in
\* the same tick went on executing and is alive with a moved pc.
C31_Witness ==
    /\ Len(sink) >= 2
    /\ \E i, j \in AgentIxs :
        /\ i < j
        /\ ~agents[i].alive
        /\ fatal[i].tick = tick
        /\ fatal[i].tag # agents[i].agent_id
        /\ sink[Len(sink)].tick = tick
        /\ agents[j].alive
        /\ agents[j].pc # spawned[j][2] % N

\* Agent i was dead before the current tick began.
DeadBefore(i) == fatal[i].tick >= 1 /\ fatal[i].tick < tick

\* A record of a tick after agent i's death holds a kill credited to i.
KillAfterDeath(i) ==
    \E j \in TickRecords :
        /\ sink[j].tick > fatal[i].tick
        /\ \E e \in 1..Len(sink[j].events) :
              /\ sink[j].events[e].type = "kill"
              /\ sink[j].events[e].by = agents[i].agent_id

\* C32. Score credit does not look at the recipient's alive flag: in the
\* accounting of every tick an agent that is dead (since this tick or an
\* earlier one) gets the territory bonus for the cells tagged with its id
\* and weights.kill plus one kill for every agent that died in this tick on
\* a cell tagged with its id, each with a kill event naming it; and when run
\* returns in mode score or score_fallback with other than exactly one agent
\* alive, the winner is the unique top scorer among all spawned agents, dead
\* or alive.
C32_CreditToDeadAgents ==
    [][/\ Stepped =>
            \A i \in AgentIxs :
                ~agents[i].alive =>
                    LET id == agents[i].agent_id
                        rec == sink'[Len(sink')]
                    IN  /\ score'[id] = score[id] + TerritoryBonus(id)
                                + cfg.weights.kill * Cardinality(VictimsOf(id))
                        /\ stats'[id].kills
                                = stats[id].kills + Cardinality(VictimsOf(id))
                        /\ \A x \in VictimsOf(id) :
                                KillEvents(rec, agents[x].agent_id, id) = 1
       /\ (pc' = "done" /\ mode_of(cfg) \in {"score", "score_fallback"}
              /\ Cardinality(AliveNow) # 1)
            => winner' = UniqueTop]_vars

\* Run has returned in a scoring mode with no agent alive; the winner died
\* in an earlier tick than the last, was paid a territory bonus since, and
\* was credited a kill in a tick after its own death.
C32_Witness ==
    /\ pc = "done"
    /\ mode_of(cfg) \in {"score", "score_fallback"}
    /\ Cardinality(AliveNow) # 1
    /\ \E i \in AgentIxs :
        /\ winner = agents[i].agent_id
        /\ DeadBefore(i)
        /\ KillAfterDeath(i)
        /\ cfg.weights.territory > 0
        /\ Cardinality({c \in 0..(N - 1) : vm.writer[c] = winner})
              >= cfg.weights.territory_bucket

\* The writer tags when the last spawn has returned, from the spawn calls.
WriterAfterSpawns == spawn_all(KernelInit(cfg), spawned, 1).vm.writer

\* A reader of the replay applies one run: cells addr .. addr+len-1 get owner.
ApplyRun(w, r) ==
    [c \in DOMAIN w |->
        IF r.addr <= c /\ c < r.addr + r.len THEN r.owner ELSE w[c]]

\* The runs n, n+1, ... of a memory_diffs list applied in list order.
RECURSIVE ApplyRuns(_, _, _)
ApplyRuns(w, runs, n) ==
    IF n > Len(runs) THEN w
    ELSE ApplyRuns(ApplyRun(w, runs[n]), runs, n + 1)

\* The tags a reader of the replay holds after record j (record 1 is the
\* header: the tags after the spawns).
RECURSIVE WriterAtRecord(_)
WriterAtRecord(j) ==
    IF j <= 1 THEN WriterAfterSpawns
    ELSE ApplyRuns(WriterAtRecord(j - 1), sink[j].memory_diffs, 1)

\* The cells tagged id at the end of the tick of record j.
CellsAtRecord(j, id) ==
    LET w == WriterAtRecord(j)
    IN  Cardinality({c \in DOMAIN w : w[c] = id})

\* The territory bonus paid to id over the ticks executed so far.
TerritoryPaid(id) ==
    IF cfg.weights.territory > 0
    THEN SeqSum([j \in 1..Len(sink) |->
                   IF sink[j].tick >= 1
                   THEN (CellsAtRecord(j, id)
                           \div Max(1, cfg.weights.territory_bucket))
                        * cfg.weights.territory
                   ELSE 0])
    ELSE 0

\* C33. Score decomposition: in every state (scores and stats move only in
\* the accounting that ends a tick) the score of every agent is
\* weights.alive * alive_ticks + weights.kill * kills plus, when
\* weights.territory > 0, the sum over the ticks executed of
\* (cells at the end of that tick // max(1, territory_bucket)) *
\* weights.territory; with a territory weight of 0 or less the score is
\* alive * alive_ticks + kill * kills.
C33_ScoreDecomposition ==
    \A id \in DOMAIN score :
        /\ id \in DOMAIN stats
        /\ score[id] = cfg.weights.alive * stats[id].alive_ticks
                        + cfg.weights.kill * stats[id].kills
                        + TerritoryPaid(id)
        /\ cfg.weights.territory <= 0 =>
              score[id] = cfg.weights.alive * stats[id].alive_ticks
                          + cfg.weights.kill * stats[id].kills

\* Ticks were accounted with territory weight 1 and bucket 2; an agent that
\* was alive in one of them and has a kill held different numbers of cells
\* at the end of two ticks, and the bonus it was paid tick by tick is not its
\* cell total divided by the bucket.
C33_Witness ==
    /\ cfg.weights.territory = 1
    /\ cfg.weights.territory_bucket = 2
    /\ pc \in {"loop", "resolve", "done"}
    /\ \E id \in DOMAIN score :
        /\ stats[id].kills >= 1
        /\ stats[id].alive_ticks >= 1
        /\ TerritoryPaid(id) >= 1
        /\ TerritoryPaid(id) # stats[id].territory_sum \div 2
        /\ \E j1, j2 \in TickRecords :
              /\ j1 < j2
              /\ CellsAtRecord(j2, id) # CellsAtRecord(j1, id)

\* A tick has ended (or none has begun): the kernel is not inside a tick.
BetweenTicks == pc \notin {"agent", "quota"}

\* The events of all tick records so far that satisfy the test for id.
EventsNaming(id) ==
    SeqSum([j \in 1..Len(sink) |->
              IF sink[j].tick >= 1 THEN EventsAbout(sink[j], id) ELSE 0])

KillEventsEmitted ==
    SeqSum([j \in 1..Len(sink) |->
              IF sink[j].tick >= 1
              THEN Cardinality({e \in 1..Len(sink[j].events) :
                                  sink[j].events[e].type = "kill"})
              ELSE 0])

\* The kills counters of all spawned ids added up.
KillsCounted ==
    SeqSum([n \in 1..Len(IdOrder) |->
              IF IdOrder[n] \in DOMAIN stats THEN stats[IdOrder[n]].kills ELSE 0])

\* Record j is the first tick record that reports agent i as not alive.
FirstDeadRecord(i, j) ==
    /\ j \in TickRecords
    /\ ~sink[j].agents[i].alive
    /\ \A h \in TickRecords : h < j => sink[h].agents[i].alive

\* C34 (as claimed). Death bookkeeping: at the end of every tick, for every
\* agent, stats deaths is 1 if the agent is not alive and 0 if it is; over
\* the whole replay every agent is the victim of at most one event, kill or
\* death, and that event is in the first record that reports the agent as
\* not alive; the kills counters of all agents add up to the number of kill
\* events emitted.
C34_DeathBookkeeping ==
    BetweenTicks =>
        /\ \A i \in AgentIxs :
              LET id == agents[i].agent_id
              IN  /\ stats[id].deaths = IF agents[i].alive THEN 0 ELSE 1
                  /\ EventsNaming(id) <= 1
                  /\ \A j \in TickRecords :
                        /\ FirstDeadRecord(i, j) => EventsAbout(sink[j], id) = 1
                        /\ EventsAbout(sink[j], id) >= 1 => FirstDeadRecord(i, j)
        /\ KillsCounted = KillEventsEmitted

\* C35 (as claimed). CPU accounting: stats total_cpu is 0 at spawn, and the
\* accounting of every tick adds to it, for every agent, the number of
\* VM.step invocations executed for that agent in the tick (none for an
\* agent that was dead when the tick began), so that at the end of every
\* tick it is the number of VM.step invocations executed for the agent so
\* far; the summary reports it as cpu_total.
C35_CpuAccounting ==
    [][/\ IsSpawnCall => stats'[agents'[Len(agents')].agent_id].total_cpu = 0
       /\ Stepped =>
            \A i \in AgentIxs :
                LET id == agents[i].agent_id
                IN  stats'[id].total_cpu = stats[id].total_cpu + steps[i]
       /\ pc' = "done" =>
            \A n \in 1..Len(summary'.agents) :
                summary'.agents[n].cpu_total
                    = stats[summary'.agents[n].id].total_cpu]_vars

\* C36. Ownership is reconstructible from the replay: whenever a tick has
\* ended, the tags after the spawns with the memory_diffs of the tick
\* records 1..T applied in record order and list order, each run setting
\* the cells addr .. addr+len-1 to its owner, are the kernel's writer tags;
\* before the first tick the tags are those the spawns left.
C36_OwnershipFromReplay ==
    BetweenTicks => WriterAtRecord(Len(sink)) = vm.writer

\* Runs n < q of one record where the later one ends on or starts at a cell
\* the earlier one covers or ends before, under another owner.
RunsOfTwoOwners(j) ==
    LET d == sink[j].memory_diffs
    IN  \E n, q \in 1..Len(d) :
            /\ n < q
            /\ d[n].owner # d[q].owner
            /\ d[q].addr \in d[n].addr .. (d[n].addr + d[n].len)

\* Two ticks have ended; their records hold a run of two cells and runs of
\* two owners that overlap or touch, and the tags are no longer the ones
\* the spawns left.
C36_Witness ==
    /\ BetweenTicks
    /\ Cardinality(TickRecords) >= 2
    /\ vm.writer # WriterAfterSpawns
    /\ \E j \in TickRecords : RunsOfTwoOwners(j)
    /\ \E j \in TickRecords :
          \E n \in 1..Len(sink[j].memory_diffs) : sink[j].memory_diffs[n].len >= 2

\* A run of a diff list lies inside the arena and names a spawned agent.
RunWellFormed(addr, len, owner) ==
    /\ 0 <= addr
    /\ addr < N
    /\ len >= 1
    /\ addr + len <= N
    /\ owner # None
    /\ owner \in SpawnedIds

DiffsWellFormed ==
    /\ \A n \in 1..Len(vm.tick_diffs) :
          RunWellFormed(vm.tick_diffs[n][1], vm.tick_diffs[n][2], vm.tick_diffs[n][3])
    /\ \A j \in TickRecords : \A n \in 1..Len(sink[j].memory_diffs) :
          LET r == sink[j].memory_diffs[n]
          IN  RunWellFormed(r.addr, r.len, r.owner)

\* C37. Diff runs are well-formed: every run (addr, len, owner) of the diff
\* list, and of the memory_diffs of every record, has 0 <= addr < N,
\* len >= 1 and addr + len <= N, and its owner is the id of a spawned agent,
\* never unowned; a step changes the list only as a VM.step of an agent that
\* is alive, and the run it adds or extends carries that agent's id; a write
\* to cell 0 after a run that ends at cell N-1 appends the run (0, 1, owner).
C37_DiffRunsWellFormed ==
    [][/\ DiffsWellFormed
       /\ DiffsWellFormed'
       /\ (vm'.tick_diffs # vm.tick_diffs /\ vm'.tick_diffs # <<>>) =>
            LET d == vm.tick_diffs
                d2 == vm'.tick_diffs
            IN  /\ IsVMStep
                /\ agents[ai].alive
                /\ d2[Len(d2)][3] = agents[ai].agent_id
                /\ (StoreTarget = 0 /\ d # <<>>) =>
                      /\ d2 = Append(d, <<0, 1, agents[ai].agent_id>>)]_vars

\* A tick's diff list holds a run that ends at cell N-1 and, next in the
\* list, the run (0, 1) of the same owner: the write to cell 0 came right
\* after the write to cell N-1.
C37_Witness ==
    \E n \in 2..Len(vm.tick_diffs) :
        /\ vm.tick_diffs[n - 1][1] + vm.tick_diffs[n - 1][2] = N
        /\ vm.tick_diffs[n][1] = 0
        /\ vm.tick_diffs[n][2] = 1
        /\ vm.tick_diffs[n][3] = vm.tick_diffs[n - 1][3]

\* No other agent was spawned with agent i's id.
HasUniqueId(i) ==
    \A x \in AgentIxs : x # i => agents[x].agent_id # agents[i].agent_id

\* The cells of the runs owned by id in the memory_diffs of all tick records.
BytesInDiffsOf(id) ==
    SeqSum([j \in 1..Len(sink) |->
              IF sink[j].tick >= 1
              THEN SeqSum([n \in 1..Len(sink[j].memory_diffs) |->
                             IF sink[j].memory_diffs[n].owner = id
                             THEN sink[j].memory_diffs[n].len ELSE 0])
              ELSE 0])

WritesConsistent ==
    BetweenTicks =>
        \A i \in AgentIxs :
            HasUniqueId(i) =>
                /\ agents[i].mem_writes = BytesInDiffsOf(agents[i].agent_id)
                /\ stats[agents[i].agent_id].total_mem_writes = agents[i].mem_writes

\* C38. Write-count consistency: whenever a tick has ended, for every agent
\* whose id no other agent has, mem_writes is the sum of len over the runs
\* owned by its id in the memory_diffs of all tick records so far and stats
\* total_mem_writes is mem_writes; no step makes any agent's mem_writes
\* smaller.
C38_WriteCounts ==
    [][/\ WritesConsistent
       /\ WritesConsistent'
       /\ \A i \in AgentIxs :
            agents'[i].mem_writes >= agents[i].mem_writes]_vars

\* Two ticks have ended; an agent with an id of its own has written in both
\* of them, beside two agents that share an id and of which one has written
\* and the other has not.
C38_Witness ==
    /\ BetweenTicks
    /\ Cardinality(TickRecords) >= 2
    /\ \E i, x, y \in AgentIxs :
        /\ HasUniqueId(i)
        /\ agents[i].mem_writes >= 2
        /\ x # y
        /\ agents[x].agent_id = agents[y].agent_id
        /\ agents[x].mem_writes # agents[y].mem_writes

\* The spawn calls whose code covers cell c.
Covering(c) ==
    {n \in 1..Len(spawned) : c \in LoadCells(spawned[n][2], Len(spawned[n][3]))}

\* The last spawn call whose code covers cell c.
LastCovering(c) == CHOOSE n \in Covering(c) : \A h \in Covering(c) : h <= n

\* The byte of spawn n's code that lands on cell c.
ByteLoadedAt(n, c) == spawned[n][3][((c - spawned[n][2]) % N) + 1]

\* No VM.step has been executed since the spawns.
NothingRunYet == tick = 0 \/ (tick = 1 /\ \A i \in AgentIxs : steps[i] = 0)

\* C39. Overlapping spawns are last-spawn-wins: a spawn leaves the agents
\* spawned before it as they were (pc and region included); until the first
\* VM.step every cell that some spawn's code covers holds the byte and the
\* tag of the last spawn covering it, so an agent whose entry a later spawn
\* has covered decodes the later agent's byte in its first step; and when an
\* agent is found dead on a cell that the code of a later spawn covers and
\* that still carries that agent's tag, the tick record has the kill event
\* (victim, by the later agent) and the later agent's kills grow.
C39_LastSpawnWins ==
    [][/\ IsSpawnCall =>
            \A i \in AgentIxs : agents'[i] = agents[i]
       /\ NothingRunYet =>
            \A c \in 0..(N - 1) :
                Covering(c) # {} =>
                    /\ vm.arena[c] = ByteLoadedAt(LastCovering(c), c)
                    /\ vm.writer[c] = spawned[LastCovering(c)][1]
       /\ (IsVMStep /\ tick = 1 /\ steps[ai] = 0
              /\ Covering(agents[ai].pc) # {}
              /\ \A id \in SpawnedIds : agents[ai].pc \notin CellsWrittenBy(id)) =>
            /\ agents[ai].pc = spawned[ai][2] % N
            /\ OpAtPc = ByteLoadedAt(LastCovering(agents[ai].pc), agents[ai].pc)
       /\ Stepped =>
            \A i \in AgentIxs :
                LET c == agents[i].pc % N
                    rec == sink'[Len(sink')]
                IN  (/\ NewlyDead(i)
                     /\ Covering(c) # {}
                     /\ LastCovering(c) > i
                     /\ vm.writer[c] = spawned[LastCovering(c)][1]) =>
                        LET y == spawned[LastCovering(c)][1]
                        IN  /\ KillEvents(rec, agents[i].agent_id, y) = 1
                            /\ DeathEvents(rec, agents[i].agent_id) = 0
                            /\ stats'[y].kills
                                  = stats[y].kills + Cardinality(VictimsOf(y))
                            /\ i \in VictimsOf(y)]_vars

\* Two agents were spawned at the same entry, the first with a program that
\* would have stored, the second with HALT; the first died in its first step
\* on the second one's HALT, and the record of tick 1 credits the kill to
\* the second.
C39_Witness ==
    /\ Len(sink) >= 2
    /\ Len(agents) >= 2
    /\ spawned[1][2] % N = spawned[2][2] % N
    /\ spawned[1][3][1] = STORE
    /\ spawned[2][3] = <<HALT>>
    /\ ~agents[1].alive
    /\ agents[1].pc = spawned[1][2] % N
    /\ agents[1].region = <<agents[1].pc, (agents[1].pc + 4) % N>>
    /\ agents[1].mem_writes = 0
    /\ KillEvents(sink[2], agents[1].agent_id, agents[2].agent_id) = 1
    /\ stats[agents[2].agent_id].kills >= 1

\* The run of the same spawns and max_ticks under win_mode m.
RunInMode(m) == RunFrom([cfg EXCEPT !.win_mode = m], spawned, max_ticks)

ScoringModes == {"score", "score_fallback"}

\* C40. Mode equivalence: when run has returned, the run of the same config,
\* spawns and max_ticks under any other win_mode executed the same number of
\* ticks and left the same tick records (agents, scores, events, memory
\* diffs), scores, stats, agents and arena, its header differing in the
\* win_mode only; and if both modes are score or score_fallback it returned
\* the same winner and the same summary but for the mode string.
C40_ModeEquivalence ==
    pc = "done" =>
        \A m \in WinModes :
            LET R == RunInMode(m)
            IN  /\ R.tick = tick
                /\ Len(R.sink) = Len(sink)
                /\ Tail(R.sink) = Tail(sink)
                /\ R.sink[1] = [sink[1] EXCEPT !.config.win_mode = m]
                /\ R.score = score
                /\ R.stats = stats
                /\ R.agents = agents
                /\ R.vm = vm
                /\ (m \in ScoringModes /\ mode_of(cfg) \in ScoringModes) =>
                      /\ R.winner = winner
                      /\ R.summary = [summary EXCEPT !.win_mode = m,
                                                     !.config.win_mode = m]

\* A run in mode score has returned after two ticks or more with exactly one
\* agent alive, who is not the top scorer: the end state in which a rule
\* "sole survivor first" in one of the two scoring modes only would tell
\* them apart.
C40_Witness ==
    /\ pc = "done"
    /\ cfg.win_mode = "score"
    /\ tick >= 2
    /\ Cardinality(AliveNow) = 1
    /\ UniqueTop # ""
    /\ UniqueTop \notin AliveNow
    /\ winner \in AliveNow
    /\ RunInMode("score_fallback").winner = winner

====
